---- MODULE Spec2Model ----
(***************************************************************************)
(* Decision-and-pricing engine of the MembraCon proposal system.           *)
(*                                                                         *)
(* Two code paths evaluate the technology chains:                          *)
(*   - the simulator (js/simulator/calculations.js, simulator.js), and     *)
(*   - the proposal engine (proposal-engine.js: CustomerSpec,              *)
(*     SolutionEngine, generateProposal).                                  *)
(*                                                                         *)
(* Numbers.  The code computes in IEEE doubles; the model computes in      *)
(* integers with fixed units:                                              *)
(*   removal fractions, scores        parts per million (PPM == 10^6)      *)
(*   concentrations (mg/L)            tenths                               *)
(*   energy (kWh/m3), maintenance,                                         *)
(*     chemical rate                  hundredths                           *)
(*   footprint, capex multiplier      tenths                               *)
(*   priorities of the simulator      percent (the slider values)          *)
(*   priorities of a CustomerSpec     percent                              *)
(*   flow rate of a CustomerSpec      1/100000 m3/h (FlowUnit per m3/h)    *)
(* Comparisons of a removal with a required removal are exact (they are    *)
(* decided on the rationals); quotients kept as scores are truncated to    *)
(* the PPM grid.                                                           *)
(***************************************************************************)
EXTENDS Integers, Sequences, FiniteSets, TLC

PPM == 1000 * 1000

\* The flow rate of a CustomerSpec is counted in 1/FlowUnit m3/h.
FlowUnit == 100 * 1000

\* ------------------------------------------------------------------------
\* Arithmetic helpers
\* ------------------------------------------------------------------------

Min(a, b) == IF a <= b THEN a ELSE b
Max(a, b) == IF a >= b THEN a ELSE b

\* Math.round on the rational n/d (d > 0): floor(n/d + 1/2).
Round(n, d) == (2 * n + d) \div (2 * d)

\* One step of the long division below: qr = <<q, r>> with p * b = q * c + r
\* for the digits p of a read so far; the next base-100 digit is added.
DivStep(qr, digit, b, c) ==
  LET t == 100 * qr[2] + digit * b
  IN  <<100 * qr[1] + t \div c, t % c>>

\* The whole part a * floor(b / c) added to the quotient of the division.
AddWhole(qr, whole) == <<whole + qr[1], qr[2]>>

\* <<floor(a * b / c), (a * b) % c>> for 0 <= a < 10^10, b >= 0 and
\* 0 < c < 10^7, by long division on the base-100 digits of a, so that no
\* intermediate product leaves the 32-bit range of TLC's integers.
MulDivQR(a, b, c) ==
  AddWhole(DivStep(DivStep(DivStep(DivStep(DivStep(<<0, 0>>,
                     a \div 100000000, b % c, c),
                     (a \div 1000000) % 100, b % c, c),
                     (a \div 10000) % 100, b % c, c),
                     (a \div 100) % 100, b % c, c),
                     a % 100, b % c, c),
           a * (b \div c))

MulDiv(a, b, c) == MulDivQR(a, b, c)[1]

\* A quotient <<q, r>> rounded up to the next whole number.
CeilOf(qr) == qr[1] + (IF qr[2] > 0 THEN 1 ELSE 0)

\* The least x with x / PPM >= n / d (d > 0): the required removal n/d as a
\* threshold on the PPM grid.  removal >= n/d  <=>  removalPPM >= CeilPPM(n, d).
CeilPPM(n, d) ==
  IF n <= 0 THEN 0 - MulDiv(0 - n, PPM, d) ELSE CeilOf(MulDivQR(n, PPM, d))

\* ------------------------------------------------------------------------
\* Technology registry (js/data/technologies.js)
\* ------------------------------------------------------------------------

TechIds == {"UF", "MBR", "RO", "UV", "AOP", "NF", "DAF"}

\* removal fractions in percent, energy in 1/100 kWh/m3, footprint and
\* capexFactor in 1/10, maintenance and chemicalConsumption in 1/100.
TECHNOLOGIES ==
  [id \in TechIds |->
    CASE id = "UF"  -> [tssRemoval |-> 99, tdsRemoval |-> 5,  bodRemoval |-> 30,
                        codRemoval |-> 25, energy |-> 30,  footprint |-> 8,
                        capexFactor |-> 10, maintenance |-> 2, chemicalConsumption |-> 1]
      [] id = "MBR" -> [tssRemoval |-> 99, tdsRemoval |-> 10, bodRemoval |-> 95,
                        codRemoval |-> 90, energy |-> 80,  footprint |-> 5,
                        capexFactor |-> 18, maintenance |-> 4, chemicalConsumption |-> 3]
      [] id = "RO"  -> [tssRemoval |-> 99, tdsRemoval |-> 97, bodRemoval |-> 95,
                        codRemoval |-> 95, energy |-> 250, footprint |-> 10,
                        capexFactor |-> 22, maintenance |-> 3, chemicalConsumption |-> 5]
      [] id = "UV"  -> [tssRemoval |-> 0,  tdsRemoval |-> 0,  bodRemoval |-> 0,
                        codRemoval |-> 0,  energy |-> 10,  footprint |-> 2,
                        capexFactor |-> 3,  maintenance |-> 5, chemicalConsumption |-> 0]
      [] id = "AOP" -> [tssRemoval |-> 30, tdsRemoval |-> 20, bodRemoval |-> 80,
                        codRemoval |-> 85, energy |-> 120, footprint |-> 4,
                        capexFactor |-> 15, maintenance |-> 4, chemicalConsumption |-> 15]
      [] id = "NF"  -> [tssRemoval |-> 99, tdsRemoval |-> 60, bodRemoval |-> 80,
                        codRemoval |-> 75, energy |-> 100, footprint |-> 9,
                        capexFactor |-> 16, maintenance |-> 3, chemicalConsumption |-> 3]
      [] id = "DAF" -> [tssRemoval |-> 90, tdsRemoval |-> 0,  bodRemoval |-> 30,
                        codRemoval |-> 25, energy |-> 5,   footprint |-> 15,
                        capexFactor |-> 8,  maintenance |-> 2, chemicalConsumption |-> 2]]

TECH_CHAINS ==
  << [techs |-> <<"UF", "RO">>,         name |-> "UF + RO"],
     [techs |-> <<"MBR", "RO">>,        name |-> "MBR + RO"],
     [techs |-> <<"UF">>,               name |-> "UF Only"],
     [techs |-> <<"MBR">>,              name |-> "MBR Only"],
     [techs |-> <<"UF", "RO", "UV">>,   name |-> "UF + RO + UV"],
     [techs |-> <<"DAF", "UF", "RO">>,  name |-> "DAF + UF + RO"],
     [techs |-> <<"MBR", "NF">>,        name |-> "MBR + NF"],
     [techs |-> <<"UF", "AOP", "RO">>,  name |-> "UF + AOP + RO"] >>

ChainIdx == 1..Len(TECH_CHAINS)

INDUSTRY_PRESETS ==
  [pharmaceutical |-> {"UF + RO", "UF + RO + UV"},
   foodBeverage   |-> {"UF + RO", "MBR + RO"},
   power          |-> {"UF + RO", "DAF + UF + RO"},
   municipal      |-> {"MBR", "UF + UV"},
   oilGas         |-> {"DAF + UF + RO", "MBR + NF"},
   semiconductor  |-> {"UF + RO + UV", "UF + AOP + RO"}]

\* NaN among the numbers of a performance and of a recommended price, all of
\* which are >= 0 otherwise.
NaN == 0 - 1

\* Names that every object literal inherits from Object.prototype:
\* TECHNOLOGIES[name] is then a function or an object, which is truthy and
\* has none of the fields of a technology.
ObjectPrototypeKeys == {"toString", "constructor"}

\* The fields calculateChainPerformance reads, on a value that has none of
\* them: each is undefined, a NaN in arithmetic.
InheritedMember ==
  [tssRemoval |-> NaN, tdsRemoval |-> NaN, bodRemoval |-> NaN, codRemoval |-> NaN,
   energy |-> NaN, footprint |-> NaN, capexFactor |-> NaN, maintenance |-> NaN,
   chemicalConsumption |-> NaN]

\* Serial removal that adds the fractions, 1 - (1 - r) - (1 - t) mistaken for
\* the product form.
SerialRemovalAdditive(r, t) ==
  IF r = NaN \/ t = NaN THEN NaN ELSE r + t * 10000

\* 1 - (1 - r) * (1 - t), r on the PPM grid and t in percent.
SerialRemoval(r, t) ==
  IF r = NaN \/ t = NaN THEN NaN ELSE PPM - ((PPM - r) * (100 - t)) \div 100

\* a += b
Plus(a, b) == IF a = NaN \/ b = NaN THEN NaN ELSE a + b

ZeroPerformance ==
  [tssRemoval |-> 0, tdsRemoval |-> 0, bodRemoval |-> 0, codRemoval |-> 0,
   energy |-> 0, footprint |-> 0, capexFactor |-> 0, maintenance |-> 0,
   chemicals |-> 0]

\* The accumulators of calculateChainPerformance after a technology.
AddTechnology(p, tech) ==
  [tssRemoval  |-> SerialRemoval(p.tssRemoval, tech.tssRemoval),
   tdsRemoval  |-> SerialRemoval(p.tdsRemoval, tech.tdsRemoval),
   bodRemoval  |-> SerialRemoval(p.bodRemoval, tech.bodRemoval),
   codRemoval  |-> SerialRemoval(p.codRemoval, tech.codRemoval),
   energy      |-> Plus(p.energy, tech.energy),
   footprint   |-> Plus(p.footprint, tech.footprint),
   capexFactor |-> Plus(p.capexFactor, tech.capexFactor),
   maintenance |-> Plus(p.maintenance, tech.maintenance),
   chemicals   |-> Plus(p.chemicals, tech.chemicalConsumption)]

\* One iteration of the forEach of calculateChainPerformance:
\* const tech = TECHNOLOGIES[techId]; if (!tech) return; ...
\* The lookup finds the registry's own entries and what the object inherits;
\* any other id gives undefined and is skipped.
AddTech(p, techId) ==
  IF techId \in TechIds THEN AddTechnology(p, TECHNOLOGIES[techId])
  ELSE IF techId \in ObjectPrototypeKeys THEN AddTechnology(p, InheritedMember)
  ELSE p

RECURSIVE ChainFold(_, _)
ChainFold(p, techs) ==
  IF techs = <<>> THEN p ELSE ChainFold(AddTech(p, Head(techs)), Tail(techs))

calculateChainPerformance(techs) == ChainFold(ZeroPerformance, techs)

Includes(seq, x) == \E i \in 1..Len(seq) : seq[i] = x

\* ------------------------------------------------------------------------
\* Values of the code that are not finite numbers
\* ------------------------------------------------------------------------

\* A JavaScript number that the code obtains by a division: a rational
\* num/den with den > 0, or one of NaN, Infinity, -Infinity.
Frac(n, d) ==
  IF d > 0 THEN [kind |-> "finite", num |-> n, den |-> d]
  ELSE [kind |-> "finite", num |-> 0 - n, den |-> 0 - d]

NonFinite(k) == [kind |-> k, num |-> 0, den |-> 1]

\* 1 - (t / f) as JavaScript evaluates it: a zero divisor gives -Infinity,
\* Infinity or (0/0) NaN.
OneMinusRatio(t, f) ==
  IF f = 0
  THEN NonFinite(IF t = 0 THEN "NaN" ELSE IF t > 0 THEN "-Infinity" ELSE "Infinity")
  ELSE Frac(f - t, f)

\* removal >= req for a removal on the PPM grid; a comparison with NaN is false.
RemovalGeq(removal, req) ==
  CASE req.kind = "finite"    -> removal >= CeilPPM(req.num, req.den)
    [] req.kind = "-Infinity" -> TRUE
    [] OTHER                  -> FALSE

\* ------------------------------------------------------------------------
\* CustomerSpec (proposal-engine.js)
\* ------------------------------------------------------------------------

\* a || b on numbers: 0 (like undefined and NaN) is falsy.
OrDefault(v, dflt) == IF v = 0 THEN dflt ELSE v

\* a || null: the value, or the empty sequence for null.
OrNull(v) == IF v = 0 THEN <<>> ELSE <<v>>

\* new CustomerSpec(data).  In data a number field that is absent is 0 and an
\* absent array is <<>>, a present one <<array>>; concentrations are in tenths
\* of mg/L and priorities in percent.
CustomerSpec(data) ==
  [sector         |-> IF data.sector = "" THEN "pharmaceutical" ELSE data.sector,
   flowRate       |-> OrDefault(data.flowRate, 100 * FlowUnit),
   operatingHours |-> OrDefault(data.operatingHours, 8000),
   feedWater      |-> [tds |-> OrDefault(data.feedWater.tds, 15000),
                       tss |-> OrDefault(data.feedWater.tss, 500),
                       bod |-> OrDefault(data.feedWater.bod, 1200),
                       cod |-> OrDefault(data.feedWater.cod, 2000),
                       ph  |-> OrDefault(data.feedWater.ph, 72)],
   targetQuality  |-> [tds |-> OrDefault(data.targetQuality.tds, 100),
                       tss |-> OrDefault(data.targetQuality.tss, 1),
                       bod |-> OrDefault(data.targetQuality.bod, 10),
                       cod |-> OrDefault(data.targetQuality.cod, 50)],
   constraints    |-> [maxFootprint  |-> OrNull(data.constraints.maxFootprint),
                       maxPower      |-> OrNull(data.constraints.maxPower),
                       maxCapex      |-> OrNull(data.constraints.maxCapex),
                       containerized |-> data.constraints.containerized],
   optionalModules |-> IF data.optionalModules = <<>>
                       THEN <<"UV", "chemicalDosing">>
                       ELSE data.optionalModules[1],
   esgPriorities  |-> [water  |-> OrDefault(data.esgPriorities.water, 40),
                       carbon |-> OrDefault(data.esgPriorities.carbon, 35),
                       energy |-> OrDefault(data.esgPriorities.energy, 25)]]

\* CustomerSpec.getRequiredRemoval: no guard on the divisor.
getRequiredRemoval(s) ==
  [tds |-> OneMinusRatio(s.targetQuality.tds, s.feedWater.tds),
   tss |-> OneMinusRatio(s.targetQuality.tss, s.feedWater.tss),
   bod |-> OneMinusRatio(s.targetQuality.bod, s.feedWater.bod),
   cod |-> OneMinusRatio(s.targetQuality.cod, s.feedWater.cod)]

\* CustomerSpec.getAnnualVolume, in whole m3/year (exact for a flow rate of
\* whole m3/h; the fraction of a m3 dropped changes no rounded cost).
getAnnualVolume(s) ==
  (s.flowRate \div FlowUnit) * s.operatingHours
    + MulDiv(s.flowRate % FlowUnit, s.operatingHours, FlowUnit)

\* validate with a return at the first violated check, the form that reports
\* at most one error.
validateFirstErrorOnly(s) ==
  LET errors == IF s.flowRate <= 0
                THEN <<"Flow rate must be positive">>
                ELSE IF s.feedWater.tds < s.targetQuality.tds
                THEN <<"Target TDS exceeds feed TDS">>
                ELSE IF s.feedWater.tss < s.targetQuality.tss
                THEN <<"Target TSS exceeds feed TSS">>
                ELSE <<>>
  IN  [valid |-> Len(errors) = 0, errors |-> errors]

\* CustomerSpec.validate
validate(s) ==
  LET e1 == IF s.flowRate <= 0
            THEN <<"Flow rate must be positive">> ELSE <<>>
      e2 == IF s.feedWater.tds < s.targetQuality.tds
            THEN <<"Target TDS exceeds feed TDS">> ELSE <<>>
      e3 == IF s.feedWater.tss < s.targetQuality.tss
            THEN <<"Target TSS exceeds feed TSS">> ELSE <<>>
      errors == e1 \o e2 \o e3
  IN  [valid |-> Len(errors) = 0, errors |-> errors]

\* ------------------------------------------------------------------------
\* CONFIG (proposal-engine.js)
\* ------------------------------------------------------------------------

electricityRatePct == 15      \* electricityRate 0.15, in 1/100
laborCostPerHour == 45
discountRatePct == 8          \* discountRate 0.08, in 1/100
projectLifespan == 10
defaultMarginPct == 20        \* defaultMargin 0.20, in 1/100
baseEquipmentCost == 5000
uvSurchargePerUnit == 200
laborHoursPerYear == 2000
opexGrowthPct == 3            \* "3% annual OpEx increase"
baselineEnergy == 450         \* 4.5 kWh/m3, in 1/100
gridCarbonFactor == 233       \* 0.233 kgCO2/kWh, in 1/1000

\* a * b / c rounded toward minus infinity, for b >= 0, c > 0 and any a.
SMulDiv(a, b, c) ==
  IF a >= 0 THEN MulDiv(a, b, c)
  ELSE LET qr == MulDivQR(0 - a, b, c)
       IN  0 - qr[1] - (IF qr[2] > 0 THEN 1 ELSE 0)

\* ------------------------------------------------------------------------
\* SolutionEngine (proposal-engine.js)
\* ------------------------------------------------------------------------

\* new SolutionEngine(spec)
SolutionEngine(s) ==
  [spec |-> s, requiredRemoval |-> getRequiredRemoval(s), decisions |-> <<>>]

\* (x * 100).toFixed(1) of a removal on the PPM grid: tenths of a percent.
PctFixed1(removal) == Round(removal, 1000)

\* (req * 100).toFixed(1) of a required removal.
ReqPctFixed1(req) ==
  IF req.kind = "finite" THEN <<Round(req.num * 1000, req.den)>> ELSE <<req.kind>>

\* A logDecision that puts the entry in front (unshift for push).
logDecisionUnshift(decisions, action, reason) ==
  <<[action |-> action, reason |-> reason]>> \o decisions

\* SolutionEngine.logDecision: push one entry (its wall-clock timestamp is
\* not part of the model).
logDecision(decisions, action, reason) ==
  Append(decisions, [action |-> action, reason |-> reason])

\* The predicate of the filter in filterFeasibleChains, for the performance
\* perf of the chain.
MeetsRemovals(eng, perf) ==
  /\ RemovalGeq(perf.tdsRemoval, eng.requiredRemoval.tds)      \* meetsTds
  /\ RemovalGeq(perf.tssRemoval, eng.requiredRemoval.tss)      \* meetsTss
  /\ RemovalGeq(perf.bodRemoval, eng.requiredRemoval.bod)      \* meetsBod

MeetsRequirements(eng, chain) ==
  MeetsRemovals(eng, calculateChainPerformance(chain.techs))

\* A decision that is logged by the TDS removal alone.
DecisionForTdsOnly(eng, chain, perf) ==
  IF RemovalGeq(perf.tdsRemoval, eng.requiredRemoval.tds)
  THEN [action |-> <<"Included", chain.name>>,
        reason |-> <<"Meets all quality requirements",
                     PctFixed1(perf.tdsRemoval), PctFixed1(perf.tssRemoval)>>]
  ELSE [action |-> <<"Excluded", chain.name>>,
        reason |-> <<"Does not meet requirements",
                     PctFixed1(perf.tdsRemoval),
                     ReqPctFixed1(eng.requiredRemoval.tds)>>]

\* The decision filterFeasibleChains logs for a chain of performance perf.
DecisionFor(eng, chain, perf) ==
  IF MeetsRemovals(eng, perf)
  THEN [action |-> <<"Included", chain.name>>,
        reason |-> <<"Meets all quality requirements",
                     PctFixed1(perf.tdsRemoval), PctFixed1(perf.tssRemoval)>>]
  ELSE [action |-> <<"Excluded", chain.name>>,
        reason |-> <<"Does not meet requirements",
                     PctFixed1(perf.tdsRemoval),
                     ReqPctFixed1(eng.requiredRemoval.tds)>>]

FilterDecision(eng, chain) ==
  DecisionFor(eng, chain, calculateChainPerformance(chain.techs))

\* this.logDecision(d.action, d.reason)
LogEntry(decisions, d) == logDecision(decisions, d.action, d.reason)

\* SolutionEngine.filterFeasibleChains over the chains i..Len(TECH_CHAINS):
\* <<kept chains, decisions after the calls of logDecision>>.
RECURSIVE FilterFrom(_, _, _, _)
FilterFrom(eng, i, kept, decisions) ==
  IF i > Len(TECH_CHAINS) THEN <<kept, decisions>>
  ELSE FilterFrom(eng, i + 1,
                  IF MeetsRequirements(eng, TECH_CHAINS[i])
                  THEN Append(kept, TECH_CHAINS[i]) ELSE kept,
                  LogEntry(decisions, FilterDecision(eng, TECH_CHAINS[i])))

filterFeasibleChains(eng) == FilterFrom(eng, 1, <<>>, eng.decisions)

\* A quotient <<q, r>> of a division by d, rounded as Math.round rounds.
RoundOf(qr, d) == qr[1] + (IF 2 * qr[2] >= d THEN 1 ELSE 0)

\* Math.round(flow * perUnit) for a flow rate in 1/FlowUnit m3/h and a whole
\* amount perUnit >= 0 per m3/h: the whole m3/h and the rest apart.
PerFlow(flowRate, perUnit) ==
  (flowRate \div FlowUnit) * perUnit
    + RoundOf(MulDivQR(flowRate % FlowUnit, perUnit, FlowUnit), FlowUnit)

\* floor(flow * perUnit), as PerFlow.
PerFlowFloor(flowRate, perUnit) ==
  (flowRate \div FlowUnit) * perUnit + MulDiv(flowRate % FlowUnit, perUnit, FlowUnit)

\* calculateCapex with the two installation factors exchanged.
calculateCapexFactorsSwapped(s, perf, techs) ==
  LET factor == IF s.constraints.containerized THEN 125 ELSE 115
      unit   == (baseEquipmentCost * perf.capexFactor * factor) \div 1000
      uv     == IF Includes(s.optionalModules, "UV") /\ ~Includes(techs, "UV")
                THEN uvSurchargePerUnit ELSE 0
  IN  PerFlow(s.flowRate, unit + uv)

\* SolutionEngine.calculateCapex: 5000 * flow * capexFactor * installation
\* factor (1.15 containerized, 1.25 otherwise), plus 200 per m3/h for the UV
\* module when it is optional and not in the chain, then Math.round.
calculateCapex(s, perf, techs) ==
  LET factor == IF s.constraints.containerized THEN 115 ELSE 125
      \* cost per m3/h: a whole number, since 5000 * (1/10) * (1/100) = 5
      unit   == (baseEquipmentCost * perf.capexFactor * factor) \div 1000
      uv     == IF Includes(s.optionalModules, "UV") /\ ~Includes(techs, "UV")
                THEN uvSurchargePerUnit ELSE 0
  IN  PerFlow(s.flowRate, unit + uv)

\* SolutionEngine.calculateOpex, for an annual volume that is a multiple of
\* 100 m3: energy + chemicals + maintenance + labor, then Math.round.  The
\* maintenance is taken in whole pounds: exact for a flow rate of whole m3/h,
\* and for a smaller one the part dropped is below the rounding.
calculateOpex(s, perf, annualVolume) ==
  LET v100        == annualVolume \div 100
      energyCost  == perf.energy * v100 * electricityRatePct       \* in 1/100
      chemical    == perf.chemicals * v100
      maintenance == PerFlowFloor(s.flowRate, (baseEquipmentCost \div 1000)
                                                * perf.capexFactor * perf.maintenance)
      labor       == laborHoursPerYear * laborCostPerHour
  IN  Round(energyCost + 100 * (chemical + maintenance + labor), 100)

\* The year's factor 1.03^(year-1) / 1.08^year on the PPM grid.
RECURSIVE NpvFactor(_)
NpvFactor(year) ==
  IF year = 1 THEN (PPM * 100) \div (100 + discountRatePct)
  ELSE (NpvFactor(year - 1) * (100 + opexGrowthPct)) \div (100 + discountRatePct)

RECURSIVE NpvFactorSum(_)
NpvFactorSum(year) ==
  IF year > projectLifespan THEN 0 ELSE NpvFactor(year) + NpvFactorSum(year + 1)

\* SolutionEngine.calculateNPV
calculateNPV(capex, annualOpex) == capex + SMulDiv(annualOpex, NpvFactorSum(1), PPM)

\* SolutionEngine.calculateEsgMetrics.  carbonReduction is
\* 1 - annualCarbon / baselineCarbon = 1 - energy / 4.5 (the annual volume of
\* a constructed specification is never 0).
calculateEsgMetrics(s, perf, annualVolume) ==
  LET waterRecovery == IF perf.tdsRemoval > 900000 THEN 82 ELSE 95
      waterScore    == waterRecovery
      carbonN       == baselineEnergy - perf.energy      \* carbonScore * 4.5
      energyN       == Max(0, baselineEnergy - perf.energy)
      compositeN    == waterScore * s.esgPriorities.water * 9
                       + carbonN * s.esgPriorities.carbon * 2
                       + energyN * s.esgPriorities.energy * 2
  IN  [waterRecovery  |-> waterRecovery,
       waterScore     |-> waterScore,
       annualCarbonTonnes |->
         Round(SMulDiv(annualVolume \div 100, perf.energy * gridCarbonFactor, 1000), 1000),
       carbonScore    |-> Round(carbonN * 2, 9),
       specificEnergy |-> perf.energy,
       energyScore    |-> Round(energyN * 2, 9),
       composite      |-> Round(compositeN, 900)]

\* min(0.1, tdsMargin * 0.5) on the PPM grid, where
\* tdsMargin = (tdsRemoval - required) / required.  A zero requirement divides
\* by zero: the quotient is Infinity for the chains of TECH_CHAINS (each removes
\* some TDS), and the minimum is 0.1.
MarginBonus(removal, req) ==
  IF req.num = 0 THEN 100000
  ELSE IF req.num > 0
       THEN Min(100000, MulDiv(removal, req.den, 2 * req.num) - PPM \div 2)
       ELSE 0 - MulDiv(removal, req.den, 2 * (0 - req.num)) - PPM \div 2

\* SolutionEngine.calculateConfidence, on the PPM grid.
calculateConfidence(eng, perf, chain) ==
  LET sector == eng.spec.sector
      sectorBonus == IF sector \in DOMAIN INDUSTRY_PRESETS
                        /\ chain.name \in INDUSTRY_PRESETS[sector]
                     THEN 150000 ELSE 0
      proven == IF \A i \in 1..Len(chain.techs) : chain.techs[i] \in {"UF", "RO", "MBR"}
                THEN 50000 ELSE 0
  IN  Min(950000,
          700000 + sectorBonus + MarginBonus(perf.tdsRemoval, eng.requiredRemoval.tds)
            + proven)

\* const costScore = 1 - ((capex / maxCapex + opex / maxOpex) / 2) of
\* calculateScore, with maxCapex = 3000000 and maxOpex = 500000: exactly, in
\* units of 1 / 6000000.
EngineCostScore(capex, opex) == 6 * PPM - capex - 6 * opex

\* The unit of a SolutionEngine score: score = ScoreOf / ScoreUnit.
ScoreUnit == 300 * PPM

\* SolutionEngine.calculateScore:
\* 0.4 * (1 - (capex/3000000 + opex/500000)/2) + 0.35 * composite/100
\*   + 0.25 * confidence, exactly, in units of 1 / ScoreUnit.
calculateScore(capex, opex, esgMetrics, confidence) ==
  20 * EngineCostScore(capex, opex)
    + esgMetrics.composite * 1050000
    + confidence * 75

\* The solution record evaluateSolution returns, from the values it computed.
SolutionRecord(chain, perf, baseCapex, annualOpex, esgMetrics, confidence) ==
  [techs |-> chain.techs,
   name |-> chain.name,
   performance |-> perf,
   capex |-> baseCapex,
   opex |-> annualOpex,
   npv10yr |-> calculateNPV(baseCapex, annualOpex),
   waterRecovery |-> IF Includes(chain.techs, "RO") THEN 82 ELSE 95,
   esgMetrics |-> esgMetrics,
   esgScore |-> esgMetrics.composite,
   confidence |-> confidence,
   score |-> calculateScore(baseCapex, annualOpex, esgMetrics, confidence),
   meetsRequirements |-> TRUE]

\* evaluateSolution once the chain's performance and the annual volume are
\* known.
EvaluateWith(eng, chain, perf, annualVolume) ==
  SolutionRecord(chain, perf,
                 calculateCapex(eng.spec, perf, chain.techs),
                 calculateOpex(eng.spec, perf, annualVolume),
                 calculateEsgMetrics(eng.spec, perf, annualVolume),
                 calculateConfidence(eng, perf, chain))

\* SolutionEngine.evaluateSolution
evaluateSolution(eng, chain) ==
  EvaluateWith(eng, chain, calculateChainPerformance(chain.techs),
               getAnnualVolume(eng.spec))

\* Insertion that puts an element before the elements of equal key: a sort
\* that is not stable.
RECURSIVE InsertDescUnstable(_, _, _)
InsertDescUnstable(sorted, x, key) ==
  IF sorted = <<>> THEN <<x>>
  ELSE IF Head(sorted)[key] > x[key]
       THEN <<Head(sorted)>> \o InsertDescUnstable(Tail(sorted), x, key)
       ELSE <<x>> \o sorted

\* Array.prototype.sort with the comparator (a, b) => b[key] - a[key]: a stable
\* sort into non-increasing order, here by insertion.
RECURSIVE InsertDesc(_, _, _)
InsertDesc(sorted, x, key) ==
  IF sorted = <<>> THEN <<x>>
  ELSE IF Head(sorted)[key] >= x[key]
       THEN <<Head(sorted)>> \o InsertDesc(Tail(sorted), x, key)
       ELSE <<x>> \o sorted

RECURSIVE SortDescFrom(_, _, _, _)
SortDescFrom(seq, i, acc, key) ==
  IF i > Len(seq) THEN acc
  ELSE SortDescFrom(seq, i + 1, InsertDesc(acc, seq[i], key), key)

SortDesc(seq, key) == SortDescFrom(seq, 1, <<>>, key)

\* feasibleChains.map(chain => this.evaluateSolution(chain))
EvaluateAll(eng, feasibleChains) ==
  [i \in 1..Len(feasibleChains) |-> evaluateSolution(eng, feasibleChains[i])]

\* generateSolutions after the filter returned f = <<kept chains, decisions>>.
SolutionsFrom(eng, f) == <<SortDesc(EvaluateAll(eng, f[1]), "score"), f[2]>>

\* SolutionEngine.generateSolutions: <<sorted solutions, decisions>>.
generateSolutions(eng) == SolutionsFrom(eng, filterFeasibleChains(eng))

\* ------------------------------------------------------------------------
\* PricingModel (proposal-engine.js)
\* ------------------------------------------------------------------------

\* PricingModel.calculatePrice(margin), the margin in percent.
calculatePrice(solution, marginPct) == Round(solution.capex * (100 + marginPct), 100)

\* e^(-k) for k = 0..14 and e^(-j/10) for j = 0..9, on the PPM grid.
ExpNegOnes ==
  <<1000000, 367879, 135335, 49787, 18316, 6738, 2479, 912>>
    \o <<335, 123, 45, 17, 6, 2, 1>>
ExpNegTenths ==
  <<1000000, 904837, 818731, 740818, 670320, 606531, 548812, 496585, 449329, 406570>>

\* r * r / PPM: the square of a number of the PPM grid.
Square(r) == MulDiv(r, r, PPM)

\* e^(-r) for 0 <= r < 0.1 on the PPM grid, by the series
\* 1 - r + r^2/2 - r^3/6 + r^4/24 (the next term is below 10^-7).
ExpNegSmall(r) ==
  PPM - r + Square(r) \div 2 - MulDiv(Square(r), r, PPM) \div 6
    + Square(Square(r)) \div 24

\* Math.exp(-y) for y >= 0 on the PPM grid: e^(-k) * e^(-j/10) * e^(-r) for
\* y = k + j/10 + r; below 10^-6 (y >= 15) it is 0 on this grid.
ExpNeg(y) ==
  IF y >= 15 * PPM THEN 0
  ELSE MulDiv(MulDiv(ExpNegOnes[y \div PPM + 1],
                     ExpNegTenths[(y % PPM) \div 100000 + 1], PPM),
              ExpNegSmall(y % 100000), PPM)

\* 1 / (1 + Math.exp(-z)) on the PPM grid; for z < 0 it is computed as
\* e^z / (1 + e^z), the same number, to keep the divisor small.
Logistic(z) ==
  IF z >= 0 THEN MulDiv(PPM, PPM, PPM + ExpNeg(z))
  ELSE MulDiv(ExpNeg(0 - z), PPM, PPM + ExpNeg(0 - z))

\* price / capex - 1 on the PPM grid, for a capex >= 0.  Every price
\* calculatePrice makes of a capex of 0 is 0, and 0 / 0 is NaN.
RatioAboveOne(price, capex) ==
  IF capex = 0 THEN NaN ELSE SMulDiv(price - capex, PPM, capex)

\* PricingModel.calculateWinProbability(price), on the PPM grid:
\* z = 3 - (priceRatio - 1) * 10 + (confidence - 0.7) * 5
\*       + (esgScore / 100 - 0.7) * 3
\* A NaN priceRatio makes z, Math.exp(-z) and the quotient NaN.
WinProbabilityAt(solution, ratioAboveOne) ==
  IF solution.capex = 0 THEN NaN
  ELSE Logistic(3 * PPM - 10 * ratioAboveOne
                  + 5 * (solution.confidence - 700000)
                  + 3 * (solution.esgScore * 10000 - 700000))

calculateWinProbability(solution, price) ==
  WinProbabilityAt(solution, RatioAboveOne(price, solution.capex))

\* const expectedValue = winProb * (price - this.solution.capex), in 1/100;
\* NaN * 0 is NaN.
ExpectedValue(solution, price) ==
  IF solution.capex = 0 THEN NaN
  ELSE SMulDiv(price - solution.capex, calculateWinProbability(solution, price), 10000)

\* The margins findOptimalPrice tests, in percent.  The loop variable starts
\* at 0.10 and grows by 0.01 in doubles: after 29 additions it is
\* 0.39000000000000024 and after 30 it is 0.40000000000000024 > 0.40, so the
\* steps are 10, 11, ..., 39 percent.
FirstMarginPct == 10
LastMarginPct == 39

\* if (expectedValue > bestExpectedValue) { bestExpectedValue = expectedValue;
\* bestPrice = price; }  bestExpectedValue is never below 0, so that the test
\* is false of a NaN expectedValue, as every comparison with NaN is.
KeepBest(best, price, expectedValue) ==
  IF expectedValue > best.expectedValue
  THEN [price |-> price, tenths |-> 0, expectedValue |-> expectedValue]
  ELSE best

\* The steps lo..hi of the loop of findOptimalPrice, taken in order: the
\* first half of the steps, then the second half from the best of the first.
RECURSIVE OptimalRange(_, _, _, _)
OptimalRange(solution, lo, hi, best) ==
  IF lo > hi THEN best
  ELSE IF lo = hi
       THEN KeepBest(best, calculatePrice(solution, lo),
                     ExpectedValue(solution, calculatePrice(solution, lo)))
       ELSE CHOOSE r \in {OptimalRange(solution, (lo + hi) \div 2 + 1, hi, b) :
                            b \in {OptimalRange(solution, lo, (lo + hi) \div 2, best)}} : TRUE

\* The loop of findOptimalPrice from the step marginPct on.
OptimalFrom(solution, marginPct, best) ==
  OptimalRange(solution, marginPct, LastMarginPct, best)

\* bestPrice / capex - 1 on the PPM grid, bestPrice being best.price and
\* best.tenths tenths.
BestRatioAboveOne(best, capex) ==
  IF capex = 0 THEN NaN
  ELSE SMulDiv(10 * (best.price - capex) + best.tenths, PPM \div 10, capex)

\* The record findOptimalPrice returns for the best step: the price in whole
\* units and tenths, margin on the PPM grid, expectedValue in 1/100.
OptimalPrice(solution, best) ==
  [price |-> best.price,
   tenths |-> best.tenths,
   margin |-> BestRatioAboveOne(best, solution.capex),
   winProbability |-> WinProbabilityAt(solution, BestRatioAboveOne(best, solution.capex)),
   expectedValue |-> best.expectedValue]

\* A findOptimalPrice whose search starts at a margin of 5 percent.
findOptimalPriceFromFivePercent(solution) ==
  OptimalPrice(solution,
               OptimalFrom(solution, 5,
                           [price |-> (solution.capex * 11) \div 10,
                            tenths |-> (solution.capex * 11) % 10,
                            expectedValue |-> 0]))

\* PricingModel.findOptimalPrice.  bestPrice starts at capex * 1.1, which
\* has a tenths digit when the capex is not a multiple of 10 (every price
\* calculatePrice makes is whole), and bestExpectedValue at 0.
findOptimalPrice(solution) ==
  OptimalPrice(solution,
               OptimalFrom(solution, FirstMarginPct,
                           [price |-> (solution.capex * 11) \div 10,
                            tenths |-> (solution.capex * 11) % 10,
                            expectedValue |-> 0]))

\* PricingModel.getCapexBreakdown
getCapexBreakdown(solution) ==
  [equipment     |-> Round(solution.capex * 45, 100),
   installation  |-> Round(solution.capex * 25, 100),
   controls      |-> Round(solution.capex * 15, 100),
   commissioning |-> Round(solution.capex * 8, 100),
   contingency   |-> Round(solution.capex * 7, 100)]

\* PricingModel.getOpexBreakdown
getOpexBreakdown(solution) ==
  [energy      |-> Round(solution.opex * 42, 100),
   chemicals   |-> Round(solution.opex * 28, 100),
   maintenance |-> Round(solution.opex * 18, 100),
   labor       |-> Round(solution.opex * 12, 100)]

\* PricingModel.getPricingOptions
getPricingOptions(solution) ==
  LET capexPrice == calculatePrice(solution, defaultMarginPct)
  IN  [capexSale |-> [upfront |-> capexPrice, annual |-> 0],
       boo       |-> [upfront |-> 0, annual |-> Round(solution.npv10yr * 13, 100)],
       bot       |-> [upfront |-> Round(capexPrice * 3, 10),
                      annual  |-> Round(solution.opex * 14, 10)]]

\* ------------------------------------------------------------------------
\* generateProposal (proposal-engine.js)
\* ------------------------------------------------------------------------

Take(seq, n) == SubSeq(seq, 1, Min(n, Len(seq)))

\* What a call of generateProposal leaves when it throws: error is
\* <<message, validation errors>>, and engine, solutions and decisionTrail
\* are what the call had constructed by then.
Thrown(s, error, engine, solutions, decisionTrail) ==
  [outcome |-> "throw", error |-> error, specification |-> s,
   engine |-> engine, solutions |-> solutions, selectedSolution |-> <<>>,
   pricing |-> <<>>, decisionTrail |-> decisionTrail]

\* Steps 3 to 5 of generateProposal: the proposal for the best solution.
Returned(s, eng, solutions, bestSolution, decisionTrail) ==
  [outcome |-> "return", error |-> <<>>, specification |-> s,
   engine |-> <<eng>>,
   solutions |-> Take(solutions, 5),
   selectedSolution |-> <<bestSolution>>,
   pricing |-> << [recommended |-> findOptimalPrice(bestSolution),
                   breakdown |-> [capex |-> getCapexBreakdown(bestSolution),
                                  opex  |-> getOpexBreakdown(bestSolution)],
                   options   |-> getPricingOptions(bestSolution)] >>,
   decisionTrail |-> decisionTrail]

\* generateProposal after engine.generateSolutions() returned
\* g = <<solutions, decisions>>.
AfterGenerate(s, eng, g) ==
  IF Len(g[1]) = 0
  THEN Thrown(s, <<"No feasible solutions found for the given requirements", <<>> >>,
              <<eng>>, g[1], g[2])
  ELSE Returned(s, eng, g[1], g[1][1], g[2])

\* generateProposal with the validity test moved after the engine has run:
\* an invalid specification still throws, but only once the chains have been
\* evaluated and the trail written.
AfterLateValidate(s, validation, eng, g) ==
  IF ~validation.valid
  THEN Thrown(s, <<"Invalid specification", validation.errors>>, <<eng>>, g[1], g[2])
  ELSE AfterGenerate(s, eng, g)

generateProposalValidatingLate(inputData) ==
  AfterLateValidate(CustomerSpec(inputData), validate(CustomerSpec(inputData)),
                    SolutionEngine(CustomerSpec(inputData)),
                    generateSolutions(SolutionEngine(CustomerSpec(inputData))))

\* generateProposal after spec.validate() returned validation.
AfterValidate(s, validation) ==
  IF ~validation.valid
  THEN Thrown(s, <<"Invalid specification", validation.errors>>, <<>>, <<>>, <<>>)
  ELSE AfterGenerate(s, SolutionEngine(s), generateSolutions(SolutionEngine(s)))

\* generateProposal(inputData): what the call returns or throws, with the
\* objects it had constructed when it ended (engine, solutions, pricing are
\* <<>> when the call ended before constructing them).
generateProposal(inputData) ==
  AfterValidate(CustomerSpec(inputData), validate(CustomerSpec(inputData)))

\* ------------------------------------------------------------------------
\* Simulator calculations (js/simulator/calculations.js)
\* ------------------------------------------------------------------------

\* normalizeESGWeights: the weights as numerators over one denominator.
normalizeESGWeights(inputs) ==
  LET total == inputs.waterPriority + inputs.carbonPriority + inputs.energyPriority
  IN  IF total = 0
      THEN [water |-> 33, carbon |-> 33, energy |-> 34, den |-> 100]
      ELSE [water |-> inputs.waterPriority, carbon |-> inputs.carbonPriority,
            energy |-> inputs.energyPriority, den |-> total]

\* calculateRemovalNeeded: guarded by feed > 0.
calculateRemovalNeeded(inputs) ==
  [tss |-> IF inputs.tss > 0 THEN OneMinusRatio(inputs.tssTarget, inputs.tss)
           ELSE Frac(0, 1),
   tds |-> IF inputs.tds > 0 THEN OneMinusRatio(inputs.tdsTarget, inputs.tds)
           ELSE Frac(0, 1)]

\* perf >= needed ? 1 : perf / (needed || 1), on the PPM grid.
RemovalScore(removal, needed) ==
  IF RemovalGeq(removal, needed) THEN PPM
  ELSE MulDiv(removal, needed.den, needed.num)

\* 1 - Math.min(capex / maxBudget, 1), on the PPM grid (capex >= 0; a zero
\* budget gives Infinity for a positive capex).
CostScore(capex, maxBudget) ==
  IF capex >= maxBudget THEN 0 ELSE PPM - MulDiv(capex, PPM, maxBudget)

\* The candidate evaluateTechnologies pushes for a chain, from the values it
\* computed.  overallScore is in 1/10 PPM.
Candidate(inputs, chain, perf, removalNeeded, footprint, capex, recovery, techScore, costScore, esgScore) ==
  [name |-> chain.name, techs |-> chain.techs,
   tssRemoval |-> perf.tssRemoval, tdsRemoval |-> perf.tdsRemoval,
   energy |-> perf.energy, footprint |-> footprint, capex |-> capex,
   recovery |-> recovery, techScore |-> techScore, costScore |-> costScore,
   esgScore |-> esgScore,
   overallScore |-> techScore * 4 + costScore * 3 + esgScore * 3,
   feasible |-> /\ RemovalGeq(perf.tssRemoval, removalNeeded.tss)
                /\ RemovalGeq(perf.tdsRemoval, removalNeeded.tds)
                /\ footprint <= inputs.maxFootprint * 20
                /\ capex <= inputs.maxBudget]

\* waterScore * w.water + energyScore * w.energy + carbonScore * w.carbon
EsgScore(recovery, energy, esgWeights) ==
  (recovery * esgWeights.water
   + (PPM - Min(energy * 2000, PPM)) * esgWeights.energy
   + (PPM - Min(energy * 2500, PPM)) * esgWeights.carbon) \div esgWeights.den

\* removalNeeded.tds > 0.5 ? 0.75 : 0.9
Recovery(needed) == IF needed.num * 2 > needed.den THEN 750000 ELSE 900000

\* The body of the forEach of evaluateTechnologies for a chain of performance
\* perf.  footprint is in 1/20 m2 (perf.footprint * flow * 0.5).
EvaluateWithPerf(inputs, chain, perf, removalNeeded, esgWeights) ==
  Candidate(inputs, chain, perf, removalNeeded,
            perf.footprint * inputs.flow,
            perf.capexFactor * inputs.flow * 100,
            Recovery(removalNeeded.tds),
            MulDiv(RemovalScore(perf.tssRemoval, removalNeeded.tss),
                   RemovalScore(perf.tdsRemoval, removalNeeded.tds), PPM),
            CostScore(perf.capexFactor * inputs.flow * 100, inputs.maxBudget),
            EsgScore(Recovery(removalNeeded.tds), perf.energy, esgWeights))

EvaluateChain(inputs, chain) ==
  EvaluateWithPerf(inputs, chain, calculateChainPerformance(chain.techs),
                   calculateRemovalNeeded(inputs), normalizeESGWeights(inputs))

\* evaluateTechnologies: one candidate per chain, sorted by overallScore.
evaluateTechnologies(inputs) ==
  SortDesc([i \in 1..Len(TECH_CHAINS) |-> EvaluateChain(inputs, TECH_CHAINS[i])],
           "overallScore")

\* achieved - required of a removal check, truncated to the PPM grid.
RemovalMargin(removal, needed) == removal - SMulDiv(needed.num, PPM, needed.den)

\* checkConstraints with the budget test strict (< for <=).
checkConstraintsStrictBudget(inputs, solution) ==
  LET removalNeeded == calculateRemovalNeeded(inputs)
  IN  << [name |-> "TSS Removal", required |-> removalNeeded.tss,
          achieved |-> solution.tssRemoval,
          pass |-> RemovalGeq(solution.tssRemoval, removalNeeded.tss),
          margin |-> RemovalMargin(solution.tssRemoval, removalNeeded.tss)],
         [name |-> "TDS Removal", required |-> removalNeeded.tds,
          achieved |-> solution.tdsRemoval,
          pass |-> RemovalGeq(solution.tdsRemoval, removalNeeded.tds),
          margin |-> RemovalMargin(solution.tdsRemoval, removalNeeded.tds)],
         [name |-> "Footprint", required |-> Frac(inputs.maxFootprint, 1),
          achieved |-> solution.footprint,
          pass |-> solution.footprint <= inputs.maxFootprint * 20,
          margin |-> inputs.maxFootprint * 20 - solution.footprint],
         [name |-> "Budget (CAPEX)", required |-> Frac(inputs.maxBudget, 1),
          achieved |-> solution.capex,
          pass |-> solution.capex < inputs.maxBudget,
          margin |-> inputs.maxBudget - solution.capex] >>

\* checkConstraints
checkConstraints(inputs, solution) ==
  LET removalNeeded == calculateRemovalNeeded(inputs)
  IN  << [name |-> "TSS Removal", required |-> removalNeeded.tss,
          achieved |-> solution.tssRemoval,
          pass |-> RemovalGeq(solution.tssRemoval, removalNeeded.tss),
          margin |-> RemovalMargin(solution.tssRemoval, removalNeeded.tss)],
         [name |-> "TDS Removal", required |-> removalNeeded.tds,
          achieved |-> solution.tdsRemoval,
          pass |-> RemovalGeq(solution.tdsRemoval, removalNeeded.tds),
          margin |-> RemovalMargin(solution.tdsRemoval, removalNeeded.tds)],
         [name |-> "Footprint", required |-> Frac(inputs.maxFootprint, 1),
          achieved |-> solution.footprint,
          pass |-> solution.footprint <= inputs.maxFootprint * 20,
          margin |-> inputs.maxFootprint * 20 - solution.footprint],
         [name |-> "Budget (CAPEX)", required |-> Frac(inputs.maxBudget, 1),
          achieved |-> solution.capex,
          pass |-> solution.capex <= inputs.maxBudget,
          margin |-> inputs.maxBudget - solution.capex] >>

\* calculateOptimization: the weighted sum F in 1/100 PPM.
calculateOptimization(inputs, solution) ==
  LET f1_cost == PPM - solution.costScore
      f2_tech == PPM - solution.techScore
      f3_esg  == PPM - solution.esgScore
      f4_risk == IF solution.feasible THEN 100000 ELSE 900000
      F       == 30 * f1_cost + 30 * f2_tech + 25 * f3_esg + 15 * f4_risk
  IN  [objectives |-> [cost |-> f1_cost, tech |-> f2_tech, esg |-> f3_esg,
                       risk |-> f4_risk],
       totalScore |-> F,
       paretoOptimal |-> F < 30 * PPM]

\* calculateConfidence with the thresholds taken on the 0..1 scale (0.80 and
\* 0.50) although the score is on the 0..100 scale.
calculateSimConfidenceUnitScale(inputs, solution) ==
  LET constraintMargin == IF solution.feasible THEN 900000 ELSE 300000
      score == 40 * 850000 + 35 * solution.techScore + 25 * constraintMargin
  IN  [score |-> score,
       decision |-> IF score >= (80 * PPM) \div 100 THEN "Auto-approve recommended"
                    ELSE IF score >= (50 * PPM) \div 100 THEN "Human review recommended"
                    ELSE "Manual override required",
       level |-> IF score >= (80 * PPM) \div 100 THEN "high"
                 ELSE IF score >= (50 * PPM) \div 100 THEN "medium" ELSE "low"]

\* calculateConfidence: the score (0..100) in 1/PPM.
calculateSimConfidence(inputs, solution) ==
  LET constraintMargin == IF solution.feasible THEN 900000 ELSE 300000
      score == 40 * 850000 + 35 * solution.techScore + 25 * constraintMargin
  IN  [score |-> score,
       decision |-> IF score >= 80 * PPM THEN "Auto-approve recommended"
                    ELSE IF score >= 50 * PPM THEN "Human review recommended"
                    ELSE "Manual override required",
       level |-> IF score >= 80 * PPM THEN "high"
                 ELSE IF score >= 50 * PPM THEN "medium" ELSE "low"]

\* The results record of Simulator.run, from the ranked solutions.
Results(inputs, solutions, bestSolution) ==
  [inputs |-> inputs,
   solutions |-> solutions,
   bestSolution |-> bestSolution,
   constraints |-> checkConstraints(inputs, bestSolution),
   optimization |-> calculateOptimization(inputs, bestSolution),
   confidence |-> calculateSimConfidence(inputs, bestSolution)]

\* const bestSolution = solutions[0]
ResultsOf(inputs, solutions) == Results(inputs, solutions, solutions[1])

\* Simulator.run for the gathered inputs: the results record.
SimulatorRun(inputs) == ResultsOf(inputs, evaluateTechnologies(inputs))

\* ------------------------------------------------------------------------
\* calculateMassBalance (js/simulator/calculations.js)
\* ------------------------------------------------------------------------

\* n / d as JavaScript evaluates it: a zero divisor gives NaN (0/0),
\* Infinity or -Infinity.
Divide(n, d) ==
  IF d = 0
  THEN NonFinite(IF n = 0 THEN "NaN" ELSE IF n > 0 THEN "Infinity" ELSE "-Infinity")
  ELSE Frac(n, d)

\* (Qin * Cin - Qout * Cout) / Qreject
RejectConcentration(Qin, Cin, Qout, Cout, Qreject) ==
  Divide(Qin * Cin - Qout * Cout, Qreject)

\* The record calculateMassBalance returns from the values it computed.
MassBalance(Qin, Qout, Qreject, Cin, Cout, recovery) ==
  [Qin |-> Qin, Qout |-> Qout, Qreject |-> Qreject, Cin |-> Cin, Cout |-> Cout,
   Creject |-> [tss |-> RejectConcentration(Qin, Cin.tss, Qout, Cout.tss, Qreject),
                tds |-> RejectConcentration(Qin, Cin.tds, Qout, Cout.tds, Qreject)],
   recovery |-> recovery]

\* calculateMassBalance.  Flows are in 1/100 m3/h (the recoveries of the
\* candidates are multiples of 0.05), concentrations in tenths of mg/L, Cout
\* cut to that grid.
calculateMassBalance(inputs, solution) ==
  MassBalance(100 * inputs.flow,
              MulDiv(100 * inputs.flow, solution.recovery, PPM),
              MulDiv(100 * inputs.flow, PPM - solution.recovery, PPM),
              [tss |-> inputs.tss, tds |-> inputs.tds],
              [tss |-> MulDiv(inputs.tss, PPM - solution.tssRemoval, PPM),
               tds |-> MulDiv(inputs.tds, PPM - solution.tdsRemoval, PPM)],
              solution.recovery)

\* ------------------------------------------------------------------------
\* generateLedgerHash (js/simulator/calculations.js)
\* ------------------------------------------------------------------------

\* The decimal digits of n >= 0 as character codes ('0' is 48).
RECURSIVE Digits(_)
Digits(n) == IF n < 10 THEN <<48 + n>> ELSE Digits(n \div 10) \o <<48 + (n % 10)>>

\* The text JSON.stringify({inputs, solution: solution.name, timestamp})
\* makes, as character codes.  Only its variable parts are kept: the numbers
\* of inputs in the order of its keys, the chain (by its position in
\* TECH_CHAINS, for its name) and the timestamp, each in decimal and followed
\* by a comma (44).
StringifyLedgerData(inputs, chainPos, timestamp) ==
  Digits(inputs.flow) \o <<44>> \o Digits(inputs.hours) \o <<44>>
    \o Digits(inputs.tss) \o <<44>> \o Digits(inputs.tds) \o <<44>>
    \o Digits(inputs.tssTarget) \o <<44>> \o Digits(inputs.tdsTarget) \o <<44>>
    \o Digits(inputs.waterPriority) \o <<44>> \o Digits(inputs.carbonPriority) \o <<44>>
    \o Digits(inputs.energyPriority) \o <<44>> \o Digits(inputs.maxFootprint) \o <<44>>
    \o Digits(inputs.maxBudget) \o <<44>> \o Digits(chainPos) \o <<44>>
    \o Digits(timestamp) \o <<44>>

\* hash = ((hash << 5) - hash) + char; hash = hash & hash: 31 * hash + char
\* in 32 bits.  The hash is kept as <<high, low>>, the two 16-bit halves of
\* its two's complement.
HashStep(hash, char) ==
  <<(31 * hash[1] + (31 * hash[2] + char) \div 65536) % 65536,
    (31 * hash[2] + char) % 65536>>

\* The for loop of generateLedgerHash over the characters lo..hi, in order:
\* the steps of lo..mid, then those of mid+1..hi on their result (the
\* evaluation splits the range, and binds the hash after lo..mid to h, to
\* keep its nesting shallow).
RECURSIVE HashRange(_, _, _, _)
HashRange(codes, lo, hi, hash) ==
  IF lo > hi THEN hash
  ELSE IF lo = hi THEN HashStep(hash, codes[lo])
  ELSE CHOOSE r \in {HashRange(codes, (lo + hi) \div 2 + 1, hi, h) :
                        h \in {HashRange(codes, lo, (lo + hi) \div 2, hash)}} : TRUE

HashFrom(codes, i, hash) == HashRange(codes, i, Len(codes), hash)

\* Math.abs(hash) of the 32-bit hash, in halves (Math.abs(-2^31) is 2^31).
AbsHash(hash) ==
  IF hash[1] < 32768 THEN hash
  ELSE <<(65535 - hash[1] + (IF hash[2] = 0 THEN 1 ELSE 0)) % 65536,
         (65536 - hash[2]) % 65536>>

\* The position in TECH_CHAINS of the chain called name.
ChainPos(name) == CHOOSE k \in ChainIdx : TECH_CHAINS[k].name = name

\* generateLedgerHash(inputs, solution) when Date.now() returns timestamp and
\* Math.random().toString(16).substr(2, 48) returns random: '0x', the 16 hex
\* digits of Math.abs(hash) (here the number in halves), then random.
generateLedgerHash(inputs, solution, timestamp, random) ==
  [hex |-> AbsHash(HashFrom(StringifyLedgerData(inputs, ChainPos(solution.name), timestamp),
                            1, <<0, 0>>)),
   tail |-> random]

\* ------------------------------------------------------------------------
\* eventBus (events.js)
\* ------------------------------------------------------------------------

\* The events followed, of EVENTS.
SIMULATOR_UPDATE == "simulator:update"
Events == {SIMULATOR_UPDATE, "simulator:run"}

\* The callbacks given to the bus: "returns" returns and "throws" throws,
\* and a handler is a callback as it is, or the wrapper once() makes of it
\* (one wrapper per callback is followed).
Handlers == [callback : {"returns", "throws"}, once : BOOLEAN]
Throws(h) == h.callback = "throws"

\* this.listeners.get(event).add(callback): a Set keeps the order in which
\* its members were added, and adding a member again changes nothing.
on(set, h) == IF \E i \in 1..Len(set) : set[i] = h THEN set ELSE Append(set, h)

\* this.listeners.get(event).delete(callback)
off(set, h) == SelectSeq(set, LAMBDA x : x # h)

\* An emit without the try ... catch: the first handler that throws ends
\* the forEach and the exception reaches the emitter.
RECURSIVE EmitFromUncaught(_, _, _)
EmitFromUncaught(set, i, did) ==
  IF i > Len(set) THEN [did EXCEPT !.set = set]
  ELSE IF Throws(set[i])
       THEN [did EXCEPT !.set = IF set[i].once THEN off(set, set[i]) ELSE set,
                        !.invoked = Append(@, set[i]), !.propagated = TRUE]
       ELSE EmitFromUncaught(IF set[i].once THEN off(set, set[i]) ELSE set,
                             IF set[i].once THEN i ELSE i + 1,
                             [did EXCEPT !.invoked = Append(@, set[i])])

\* The forEach of emit over the Set of the event, from its i-th member on.
\* The callback is called in a try whose catch logs the error; a wrapper
\* of once() first removes itself from the Set, which the forEach goes on
\* through: the member that followed it is the i-th now.
RECURSIVE EmitFrom(_, _, _)
EmitFrom(set, i, did) ==
  IF i > Len(set) THEN [did EXCEPT !.set = set]
  ELSE EmitFrom(IF set[i].once THEN off(set, set[i]) ELSE set,
                IF set[i].once THEN i ELSE i + 1,
                [did EXCEPT !.invoked = Append(@, set[i]),
                            !.errors = IF Throws(set[i]) THEN @ + 1 ELSE @])

\* ------------------------------------------------------------------------
\* Visualizations (base-viz.js, app.js)
\* ------------------------------------------------------------------------

\* The visualizations followed, by their id in App.visualizations.
VizIds == {"flow-graph", "sankey", "carbon-clock"}

\* this.handleSimulatorUpdate of the visualization v, which init() subscribes,
\* and the listener App.initializeSimulator subscribes.
VizHandler(v) == [callback |-> v, once |-> FALSE]
AppListener == [callback |-> "app", once |-> FALSE]

\* The number of calls of update of the visualization v that the handler h
\* makes when it is called: handleSimulatorUpdate of v calls it when v is
\* visible, and the listener of App calls onSimulatorUpdate of every visible
\* member of App.visualizations.
UpdatesBy(h, a, v) ==
  IF ~a.viz[v].isVisible THEN 0
  ELSE IF h = VizHandler(v) THEN 1
  ELSE IF h = AppListener /\ v \in a.visualizations THEN 1
  ELSE 0

\* ------------------------------------------------------------------------
\* State
\* ------------------------------------------------------------------------

VARIABLES
  data,         \* the record given to new CustomerSpec / generateProposal, or <<>>
  spec,         \* <<the CustomerSpec constructed>>, or <<>>
  validation,   \* <<the last result of spec.validate()>>, or <<>>
  engine,       \* <<the SolutionEngine constructed on spec>>, or <<>>
  solutions,    \* <<the list the last generateSolutions returned>>, or <<>>
  proposal,     \* <<what generateProposal returned or threw>>, or <<>>
  form,         \* the values of the simulator's form (what gatherInputs reads)
  simState,     \* state.simulator: inputs and results
  lastResults,  \* Simulator.lastResults: <<results>>, or <<>> for null
  techs,        \* the list of ids given to calculateChainPerformance
  performance,  \* what calculateChainPerformance(techs) returned
  ledger,       \* the calls of generateLedgerHash made, with what each returned
  runs,         \* two generateSolutions calls in progress, or <<>>
  balance,      \* <<the last call of calculateMassBalance, with its result>>, or <<>>
  bus,          \* eventBus: its listeners, and what the last emit did
  app           \* the visualizations, and the updates of the last publication

vars == <<data, spec, validation, engine, solutions, proposal,
          form, simState, lastResults, techs, performance, ledger, runs, balance, bus, app>>

engineVars == <<data, spec, validation, engine, solutions, proposal>>
simVars    == <<form, simState, lastResults>>
chainVars  == <<techs, performance>>

\* The number of generateSolutions calls made on one engine in a session.
MaxGenerate == 2

\* ------------------------------------------------------------------------
\* Inputs
\* ------------------------------------------------------------------------

\* An intake record.  Concentrations in tenths of mg/L, the flow rate in
\* 1/FlowUnit m3/h; 0 stands for a field that is absent (or 0): both are falsy
\* to the constructor.
MkData(flow, tdsFeed, tdsTarget, tssTarget, bodTarget, codTarget, containerized, optionalModules, maxCapex, sector) ==
  [sector |-> sector, flowRate |-> flow, operatingHours |-> 0,
   feedWater |-> [tds |-> tdsFeed, tss |-> 1500, bod |-> 1000, cod |-> 2000, ph |-> 0],
   targetQuality |-> [tds |-> tdsTarget, tss |-> tssTarget, bod |-> bodTarget,
                      cod |-> codTarget],
   constraints |-> [maxFootprint |-> 0, maxPower |-> 0, maxCapex |-> maxCapex,
                    containerized |-> containerized],
   optionalModules |-> optionalModules,
   esgPriorities |-> [water |-> 0, carbon |-> 0, energy |-> 0]]

SpecInputs ==
  { MkData(f, a, b, c, d, e, FALSE, <<>>, 0, "") :
      f \in {0 - 5 * FlowUnit, 0, 1, 11, 100 * FlowUnit}, a \in {0, 5000}, b \in {0, 1000, 6000},
      c \in {50, 2000}, d \in {100, 2000}, e \in {0, 500} }
  \cup
  { MkData(100 * FlowUnit, 5000, 1000, 50, 100, 500, k, o, m, s) :
      k \in BOOLEAN, o \in {<<>>, << <<>> >>, << <<"UV">> >>},
      m \in {0, 400000}, s \in {"", "municipal", "aquaculture"} }
  \cup
  { [MkData(100 * FlowUnit, 5000, 1000, 50, 100, 500, FALSE, <<>>, 0, "")
       EXCEPT !.esgPriorities = [water |-> p[1], carbon |-> p[2], energy |-> p[3]]] :
      p \in {<<50, 30, 20>>, <<100, 0, 0>>} }
  \cup
  \* no TDS to remove and a BOD target above the feed: every chain is kept
  { MkData(100 * FlowUnit, 5000, 5000, 50, 2000, 500, k, o, 0, "") :
      k \in BOOLEAN, o \in {<<>>, << <<>> >>, << <<"UV">> >>} }

\* state.js initialState.simulator.inputs (sector, bod and cod, which no
\* calculation reads, are left out); concentrations in tenths of mg/L.
InitialInputs ==
  [flow |-> 100, hours |-> 8000, tss |-> 1500, tds |-> 25000,
   tssTarget |-> 50, tdsTarget |-> 5000,
   waterPriority |-> 50, carbonPriority |-> 30, energyPriority |-> 20,
   maxFootprint |-> 500, maxBudget |-> 2000000]

\* What the user may enter in the form.
SimInputs ==
  { [InitialInputs EXCEPT !.tss = a, !.tds = b, !.tdsTarget = c,
                          !.maxFootprint = fp, !.maxBudget = mb,
                          !.waterPriority = p[1], !.carbonPriority = p[2],
                          !.energyPriority = p[3]] :
      a \in {0, 1500}, b \in {5000, 25000}, c \in {5000, 6000},
      fp \in {30, 500}, mb \in {100000, 2000000},
      p \in {<<50, 30, 20>>, <<0, 0, 0>>} }
  \cup
  { [InitialInputs EXCEPT !.tds = b, !.maxBudget = mb, !.waterPriority = 100,
                          !.carbonPriority = 0, !.energyPriority = 0] :
      b \in {5000, 25000}, mb \in {100000, 2000000} }

\* ------------------------------------------------------------------------
\* Initial state
\* ------------------------------------------------------------------------

Init ==
  /\ data = <<>>
  /\ spec = <<>>
  /\ validation = <<>>
  /\ engine = <<>>
  /\ solutions = <<>>
  /\ proposal = <<>>
  /\ form = InitialInputs
  /\ simState = [inputs |-> InitialInputs, results |-> <<>>]
  /\ lastResults = <<>>
  /\ techs = <<>>
  /\ performance = calculateChainPerformance(<<>>)
  /\ ledger = <<>>
  /\ runs = <<>>
  /\ balance = <<>>
  /\ bus = [listeners |-> [event \in Events |-> <<>>], last |-> <<>>]
  /\ app = [visualizations |-> {}, activeViz |-> <<>>,
            viz |-> [v \in VizIds |-> [isInitialized |-> FALSE, isVisible |-> FALSE]],
            last |-> <<>>]

\* ------------------------------------------------------------------------
\* Operations of the proposal engine
\* ------------------------------------------------------------------------

\* const spec = new CustomerSpec(d)
NewCustomerSpec(d) ==
  /\ data = <<>>
  /\ data' = <<d>>
  /\ spec' = <<CustomerSpec(d)>>
  /\ UNCHANGED <<validation, engine, solutions, proposal>>
  /\ UNCHANGED simVars
  /\ UNCHANGED chainVars
  /\ UNCHANGED <<ledger, runs, balance, bus, app>>

\* spec.validate()
Validate ==
  /\ spec # <<>>
  /\ validation' = <<validate(spec[1])>>
  /\ UNCHANGED <<data, spec, engine, solutions, proposal>>
  /\ UNCHANGED simVars
  /\ UNCHANGED chainVars
  /\ UNCHANGED <<ledger, runs, balance, bus, app>>

\* const engine = new SolutionEngine(spec)
NewSolutionEngine ==
  /\ spec # <<>>
  /\ engine = <<>>
  /\ engine' = <<SolutionEngine(spec[1])>>
  /\ UNCHANGED <<data, spec, validation, solutions, proposal>>
  /\ UNCHANGED simVars
  /\ UNCHANGED chainVars
  /\ UNCHANGED <<ledger, runs, balance, bus, app>>

\* engine.generateSolutions()
GenerateSolutions ==
  /\ engine # <<>>
  /\ Len(engine[1].decisions) < MaxGenerate * Len(TECH_CHAINS)
  /\ \E g \in {generateSolutions(engine[1])} :
       /\ solutions' = <<g[1]>>
       /\ engine' = <<[engine[1] EXCEPT !.decisions = g[2]]>>
  /\ UNCHANGED <<data, spec, validation, proposal>>
  /\ UNCHANGED simVars
  /\ UNCHANGED chainVars
  /\ UNCHANGED <<ledger, runs, balance, bus, app>>

\* await generateProposal(d)
GenerateProposal(d) ==
  /\ data = <<>>
  /\ data' = <<d>>
  /\ proposal' = <<generateProposal(d)>>
  /\ UNCHANGED <<spec, validation, engine, solutions>>
  /\ UNCHANGED simVars
  /\ UNCHANGED chainVars
  /\ UNCHANGED <<ledger, runs, balance, bus, app>>

\* ------------------------------------------------------------------------
\* Operations of the simulator
\* ------------------------------------------------------------------------

\* The user edits the form.
EditForm(i) ==
  /\ form' = i
  /\ UNCHANGED <<simState, lastResults>>
  /\ UNCHANGED engineVars
  /\ UNCHANGED chainVars
  /\ UNCHANGED <<ledger, runs, balance, bus, app>>

\* Simulator.run: gatherInputs, actions.updateSimulatorInputs, the
\* calculations, this.lastResults, actions.setSimulatorResults.
Run ==
  /\ \E results \in {SimulatorRun(form)} :
       /\ lastResults' = <<results>>
       /\ simState' = [inputs |-> form, results |-> <<results>>]
  /\ UNCHANGED form
  /\ UNCHANGED engineVars
  /\ UNCHANGED chainVars
  /\ UNCHANGED <<ledger, runs, balance, bus, app>>

\* ------------------------------------------------------------------------
\* Calls of calculateChainPerformance
\* ------------------------------------------------------------------------

\* The longest list of ids given to calculateChainPerformance.
MaxChainLen == 3

\* The ids a caller may list: the registry's, one that names nothing ("XX")
\* and the names every object inherits.
ChainIds == TechIds \cup {"XX"} \cup ObjectPrototypeKeys

\* calculateChainPerformance on the list grown by one id.
AppendTechnology(id) ==
  /\ Len(techs) < MaxChainLen
  /\ techs' = Append(techs, id)
  /\ performance' = calculateChainPerformance(Append(techs, id))
  /\ UNCHANGED engineVars
  /\ UNCHANGED simVars
  /\ UNCHANGED <<ledger, runs, balance, bus, app>>

\* ------------------------------------------------------------------------
\* Calls of generateLedgerHash
\* ------------------------------------------------------------------------

\* The number of calls of generateLedgerHash followed.
MaxLedger == 2

\* The inputs of the runs that ask for a hash.
LedgerInputs ==
  {InitialInputs, [InitialInputs EXCEPT !.tds = 5000],
   [InitialInputs EXCEPT !.maxBudget = 100000]}

\* Values Date.now() returns (ms), and hex digits Math.random() yields.
Timestamps == {1700000000, 1700000001}
RandomDigits == {"8f3a91c2", "02c7d5e0"}

\* ledgerHash: generateLedgerHash(inputs, bestSolution) of a run on inputs,
\* Date.now() returning timestamp and Math.random() yielding random.
GenerateLedgerHash(inputs, timestamp, random) ==
  /\ Len(ledger) < MaxLedger
  /\ \E best \in {evaluateTechnologies(inputs)[1]} :
       ledger' = Append(ledger,
                        [inputs |-> inputs, solution |-> best.name,
                         timestamp |-> timestamp,
                         hash |-> generateLedgerHash(inputs, best, timestamp, random)])
  /\ UNCHANGED engineVars
  /\ UNCHANGED simVars
  /\ UNCHANGED chainVars
  /\ UNCHANGED <<runs, balance, bus, app>>

\* ------------------------------------------------------------------------
\* Two generateSolutions calls, step by step
\* ------------------------------------------------------------------------

\* The specifications of the two runs: valid ones, with different targets.
RunInputs ==
  { MkData(100 * FlowUnit, 5000, b, 50, d, 500, FALSE, <<>>, 0, "") :
      b \in {1000, 5000}, d \in {100, 2000} }

\* A run at the start of engine.generateSolutions(): its input record, the
\* engine constructed on its specification, the callback to run next (of
\* filter, of map, then the sort), the index it is at, the chains the
\* filter has kept and the solutions map has made.
NewRun(d) ==
  [data |-> d, engine |-> SolutionEngine(CustomerSpec(d)), pc |-> "filter",
   i |-> 1, kept |-> <<>>, solutions |-> <<>>]

\* A trail shared by all engines: that of the first.
SharedTrail(run, r) == run[1].engine.decisions

\* this.decisions of the engine of run r
OwnTrail(run, r) == run[r].engine.decisions

\* The callback of TECH_CHAINS.filter for the chain at run.i: one logDecision,
\* and the chain kept if it meets the requirements.
FilterCallback(run, chains, decisions) ==
  [run EXCEPT
     !.engine.decisions = LogEntry(decisions, FilterDecision(run.engine, chains[run.i])),
     !.kept = IF MeetsRequirements(run.engine, chains[run.i])
              THEN Append(run.kept, chains[run.i]) ELSE run.kept,
     !.i = IF run.i = Len(chains) THEN 1 ELSE run.i + 1,
     !.pc = IF run.i = Len(chains) THEN "map" ELSE "filter"]

\* The callback of feasibleChains.map for the chain at run.i.
MapCallback(run) ==
  [run EXCEPT !.solutions = Append(run.solutions, evaluateSolution(run.engine, run.kept[run.i])),
              !.i = run.i + 1]

\* solutions.sort(...); return solutions
SortAndReturn(run) ==
  [run EXCEPT !.solutions = SortDesc(run.solutions, "score"), !.pc = "done"]

\* Two engines are constructed on two specifications; TECH_CHAINS is the
\* one registry both read.
StartRuns(d1, d2) ==
  /\ runs = <<>>
  /\ d1 # d2
  /\ runs' = <<[chains |-> TECH_CHAINS, run |-> <<NewRun(d1), NewRun(d2)>>]>>
  /\ UNCHANGED engineVars
  /\ UNCHANGED simVars
  /\ UNCHANGED chainVars
  /\ UNCHANGED <<ledger, balance, bus, app>>

\* Run r takes the next step of its filter.
FilterStep(r) ==
  /\ runs # <<>>
  /\ runs[1].run[r].pc = "filter"
  /\ runs' = <<[runs[1] EXCEPT !.run[r] = FilterCallback(runs[1].run[r], runs[1].chains, OwnTrail(runs[1].run, r))]>>
  /\ UNCHANGED engineVars
  /\ UNCHANGED simVars
  /\ UNCHANGED chainVars
  /\ UNCHANGED <<ledger, balance, bus, app>>

\* Run r takes the next step of its map.
MapStep(r) ==
  /\ runs # <<>>
  /\ runs[1].run[r].pc = "map"
  /\ runs[1].run[r].i <= Len(runs[1].run[r].kept)
  /\ runs' = <<[runs[1] EXCEPT !.run[r] = MapCallback(runs[1].run[r])]>>
  /\ UNCHANGED engineVars
  /\ UNCHANGED simVars
  /\ UNCHANGED chainVars
  /\ UNCHANGED <<ledger, balance, bus, app>>

\* Run r sorts its solutions and returns.
SortStep(r) ==
  /\ runs # <<>>
  /\ runs[1].run[r].pc = "map"
  /\ runs[1].run[r].i > Len(runs[1].run[r].kept)
  /\ runs' = <<[runs[1] EXCEPT !.run[r] = SortAndReturn(runs[1].run[r])]>>
  /\ UNCHANGED engineVars
  /\ UNCHANGED simVars
  /\ UNCHANGED chainVars
  /\ UNCHANGED <<ledger, balance, bus, app>>

\* ------------------------------------------------------------------------
\* Specifications
\* ------------------------------------------------------------------------

Next ==
  \/ \E d \in SpecInputs : NewCustomerSpec(d)
  \/ Validate
  \/ NewSolutionEngine
  \/ GenerateSolutions
  \/ \E d \in SpecInputs : GenerateProposal(d)

Spec == Init /\ [][Next]_vars

SimNext ==
  \/ \E i \in SimInputs : EditForm(i)
  \/ Run

SimSpec == Init /\ [][SimNext]_vars

ChainNext == \E id \in ChainIds : AppendTechnology(id)

ChainSpec == Init /\ [][ChainNext]_vars

LedgerNext ==
  \E inputs \in LedgerInputs, timestamp \in Timestamps, random \in RandomDigits :
    GenerateLedgerHash(inputs, timestamp, random)

LedgerSpec == Init /\ [][LedgerNext]_vars

\* The inputs calculateMassBalance is called on.
BalanceInputs ==
  { [InitialInputs EXCEPT !.flow = f, !.tss = a, !.tds = b, !.tdsTarget = c] :
      f \in {0, 100}, a \in {0, 1500}, b \in {5000, 25000}, c \in {5000, 6000} }

\* calculateMassBalance(inputs, solution) for the k-th solution that
\* evaluateTechnologies(inputs) returned.
CalculateMassBalance(inputs, k) ==
  /\ \E solution \in {evaluateTechnologies(inputs)[k]} :
       balance' = <<[inputs |-> inputs, solution |-> solution.name,
                     massBalance |-> calculateMassBalance(inputs, solution)]>>
  /\ UNCHANGED engineVars
  /\ UNCHANGED simVars
  /\ UNCHANGED chainVars
  /\ UNCHANGED <<ledger, runs, bus, app>>

BalanceNext == \E inputs \in BalanceInputs, k \in ChainIdx : CalculateMassBalance(inputs, k)

BalanceSpec == Init /\ [][BalanceNext]_vars

\* ------------------------------------------------------------------------
\* Operations of the event bus
\* ------------------------------------------------------------------------

\* The number of handlers an event has at most.
MaxListeners == 2

\* eventBus.on(event, h), or eventBus.once(event, h.callback) for a wrapper
On(event, h) ==
  /\ Len(on(bus.listeners[event], h)) <= MaxListeners
  /\ bus' = [bus EXCEPT !.listeners[event] = on(@, h)]
  /\ bus' # bus
  /\ UNCHANGED engineVars
  /\ UNCHANGED simVars
  /\ UNCHANGED chainVars
  /\ UNCHANGED <<ledger, runs, balance, app>>

\* eventBus.off(event, h)
Off(event, h) ==
  /\ bus' = [bus EXCEPT !.listeners[event] = off(@, h)]
  /\ bus' # bus
  /\ UNCHANGED engineVars
  /\ UNCHANGED simVars
  /\ UNCHANGED chainVars
  /\ UNCHANGED <<ledger, runs, balance, app>>

\* eventBus.emit(event, data): what it did is kept in bus.last, with the
\* handlers the event had when it was called.
Emit(event) ==
  /\ \E did \in {EmitFrom(bus.listeners[event], 1, [set |-> <<>>, invoked |-> <<>>, errors |-> 0, propagated |-> FALSE])} :
       bus' = [listeners |-> [bus.listeners EXCEPT ![event] = did.set],
               last |-> <<[event |-> event, registered |-> bus.listeners[event],
                           invoked |-> did.invoked, errors |-> did.errors,
                           propagated |-> did.propagated]>>]
  /\ UNCHANGED engineVars
  /\ UNCHANGED simVars
  /\ UNCHANGED chainVars
  /\ UNCHANGED <<ledger, runs, balance, app>>

\* ------------------------------------------------------------------------
\* Operations on the visualizations
\* ------------------------------------------------------------------------

\* App.init: initializeSimulator subscribes the listener of App, and
\* initializeVisualizations makes the flow graph, whose init() subscribes its
\* own handler, and shows it.
AppInit ==
  /\ app.activeViz = <<>>
  /\ bus' = [bus EXCEPT !.listeners[SIMULATOR_UPDATE] = on(on(@, AppListener), VizHandler("flow-graph"))]
  /\ app' = [app EXCEPT !.visualizations = @ \cup {"flow-graph"},
                        !.activeViz = <<"flow-graph">>,
                        !.viz["flow-graph"] = [isInitialized |-> TRUE, isVisible |-> TRUE]]
  /\ UNCHANGED engineVars
  /\ UNCHANGED simVars
  /\ UNCHANGED chainVars
  /\ UNCHANGED <<ledger, runs, balance>>

\* App.switchVisualization(v): the active one is hidden; v is made and
\* initialized if App.visualizations has not got it, and shown.
SwitchVisualization(v) ==
  /\ app.activeViz # <<>>
  /\ bus' = [bus EXCEPT !.listeners[SIMULATOR_UPDATE] = IF v \in app.visualizations THEN @ ELSE on(@, VizHandler(v))]
  /\ app' = [app EXCEPT !.visualizations = @ \cup {v},
                        !.activeViz = <<v>>,
                        !.viz = [w \in VizIds |->
                                   IF w = v
                                   THEN [isInitialized |-> (v \notin app.visualizations) \/ @[w].isInitialized,
                                         isVisible |-> TRUE]
                                   ELSE IF w = app.activeViz[1]
                                   THEN [@[w] EXCEPT !.isVisible = FALSE]
                                   ELSE @[w]]]
  /\ UNCHANGED engineVars
  /\ UNCHANGED simVars
  /\ UNCHANGED chainVars
  /\ UNCHANGED <<ledger, runs, balance>>

\* destroy() of the visualization v
Destroy(v) ==
  /\ app.viz[v].isInitialized
  /\ bus' = [bus EXCEPT !.listeners[SIMULATOR_UPDATE] = off(@, VizHandler(v))]
  /\ app' = [app EXCEPT !.viz[v] = [isInitialized |-> FALSE, isVisible |-> FALSE]]
  /\ UNCHANGED engineVars
  /\ UNCHANGED simVars
  /\ UNCHANGED chainVars
  /\ UNCHANGED <<ledger, runs, balance>>

\* actions.setSimulatorResults(results): eventBus.emit(SIMULATOR_UPDATE,
\* results).  app.last keeps the visualizations as they were and the number
\* of calls of update each got from the handlers invoked.
Publish ==
  /\ \E did \in {EmitFrom(bus.listeners[SIMULATOR_UPDATE], 1, [set |-> <<>>, invoked |-> <<>>, errors |-> 0, propagated |-> FALSE])} :
       /\ bus' = [listeners |-> [bus.listeners EXCEPT ![SIMULATOR_UPDATE] = did.set],
                  last |-> <<[event |-> SIMULATOR_UPDATE,
                              registered |-> bus.listeners[SIMULATOR_UPDATE],
                              invoked |-> did.invoked, errors |-> did.errors,
                              propagated |-> did.propagated]>>]
       /\ app' = [app EXCEPT !.last =
                    <<[viz |-> app.viz,
                       updates |-> [v \in VizIds |->
                          Cardinality({i \in 1..Len(did.invoked) :
                                         UpdatesBy(did.invoked[i], app, v) = 1})]]>>]
  /\ UNCHANGED engineVars
  /\ UNCHANGED simVars
  /\ UNCHANGED chainVars
  /\ UNCHANGED <<ledger, runs, balance>>

VizNext ==
  \/ AppInit
  \/ \E v \in VizIds : SwitchVisualization(v)
  \/ \E v \in VizIds : Destroy(v)
  \/ Publish

VizSpec == Init /\ [][VizNext]_vars

BusNext ==
  \/ \E event \in Events, h \in Handlers : On(event, h)
  \/ \E event \in Events, h \in Handlers : Off(event, h)
  \/ \E event \in Events : Emit(event)

BusSpec == Init /\ [][BusNext]_vars

RunsNext ==
  \/ \E d1, d2 \in RunInputs : StartRuns(d1, d2)
  \/ \E r \in 1..2 : FilterStep(r)
  \/ \E r \in 1..2 : MapStep(r)
  \/ \E r \in 1..2 : SortStep(r)

RunsSpec == Init /\ [][RunsNext]_vars

\* ------------------------------------------------------------------------
\* Properties
\* ------------------------------------------------------------------------

\* C1: every candidate that evaluateTechnologies produced for the inputs of a
\* run has feasible = TRUE exactly when every entry checkConstraints returns
\* for those inputs and that candidate has pass = TRUE.
C1_FeasibleIffEveryCheckPasses ==
  lastResults # <<>> =>
    LET r == lastResults[1]
    IN  \A i \in 1..Len(r.solutions) :
          LET checks == checkConstraints(r.inputs, r.solutions[i])
          IN  r.solutions[i].feasible <=> \A k \in 1..Len(checks) : checks[k].pass

\* C1, its case: a run whose candidates include an infeasible one and a
\* feasible one that sits exactly on the budget.
C1_Witness ==
  /\ lastResults # <<>>
  /\ LET r == lastResults[1]
     IN  /\ \E i \in 1..Len(r.solutions) :
              LET checks == checkConstraints(r.inputs, r.solutions[i])
              IN  ~r.solutions[i].feasible /\ ~checks[4].pass
         /\ \E i \in 1..Len(r.solutions) :
              /\ r.solutions[i].feasible
              /\ r.solutions[i].capex = r.inputs.maxBudget

\* C2: a chain is kept by SolutionEngine.filterFeasibleChains (it is among the
\* solutions generateSolutions returns) exactly when its removal reaches the
\* required removal for each of TSS, TDS, BOD and COD and its capex and
\* footprint are within the limits the specification sets.
C2_KeptIffAllRequirementsMet ==
  solutions # <<>> =>
    \A i \in ChainIdx :
      LET chain == TECH_CHAINS[i]
          s     == spec[1]
          perf  == calculateChainPerformance(chain.techs)
          req   == getRequiredRemoval(s)
          kept  == \E j \in 1..Len(solutions[1]) : solutions[1][j].name = chain.name
      IN  kept <=>
            /\ RemovalGeq(perf.tssRemoval, req.tss)
            /\ RemovalGeq(perf.tdsRemoval, req.tds)
            /\ RemovalGeq(perf.bodRemoval, req.bod)
            /\ RemovalGeq(perf.codRemoval, req.cod)
            /\ \/ s.constraints.maxCapex = <<>>
               \/ calculateCapex(s, perf, chain.techs) <= s.constraints.maxCapex[1]
            /\ \/ s.constraints.maxFootprint = <<>>
               \/ perf.footprint * s.flowRate
                    <= 10 * FlowUnit * s.constraints.maxFootprint[1]

\* C3: the list generateSolutions returns holds one candidate for every chain
\* of TECH_CHAINS: a chain that fails the feasibility filter is retained, not
\* dropped.
C3_OneCandidatePerChain ==
  solutions # <<>> =>
    /\ Len(solutions[1]) = Len(TECH_CHAINS)
    /\ \A i \in ChainIdx :
         \E j \in 1..Len(solutions[1]) : solutions[1][j].name = TECH_CHAINS[i].name

\* C4: the bestSolution of a run is the first candidate, in ranked order,
\* whose feasible flag is TRUE.
C4_BestIsFirstFeasible ==
  lastResults # <<>> =>
    LET r    == lastResults[1]
        feas == {i \in 1..Len(r.solutions) : r.solutions[i].feasible}
    IN  feas # {} =>
          \E i \in feas :
            /\ \A j \in feas : i <= j
            /\ r.bestSolution = r.solutions[i]

\* C5: when the specification is valid and no chain passes the feasibility
\* filter, generateProposal does not raise: it returns, with no selected
\* solution and with the decision trail as diagnostics.
C5_NoFeasibleChainReturnsNullBest ==
  (/\ proposal # <<>>
   /\ validate(CustomerSpec(data[1])).valid
   /\ filterFeasibleChains(SolutionEngine(CustomerSpec(data[1])))[1] = <<>>)
  => /\ proposal[1].outcome = "return"
     /\ proposal[1].selectedSolution = <<>>
     /\ proposal[1].decisionTrail # <<>>

\* C6: validate returns one error for each violated check (flow rate, TDS,
\* TSS) and no other, and valid is TRUE exactly when errors is empty; a
\* specification whose only violation is a target TDS above the feed TDS gets
\* exactly one error, the one naming TDS.
C6_OneErrorPerViolatedCheck ==
  validation # <<>> =>
    LET s == spec[1]
        v == validation[1]
        Count(msg) == Cardinality({k \in 1..Len(v.errors) : v.errors[k] = msg})
        Bit(b) == IF b THEN 1 ELSE 0
        flowBad == s.flowRate <= 0
        tdsBad  == s.targetQuality.tds > s.feedWater.tds
        tssBad  == s.targetQuality.tss > s.feedWater.tss
    IN  /\ v.valid <=> v.errors = <<>>
        /\ Count("Flow rate must be positive") = Bit(flowBad)
        /\ Count("Target TDS exceeds feed TDS") = Bit(tdsBad)
        /\ Count("Target TSS exceeds feed TSS") = Bit(tssBad)
        /\ Len(v.errors) = Bit(flowBad) + Bit(tdsBad) + Bit(tssBad)
        /\ (tdsBad /\ ~flowBad /\ ~tssBad) =>
             (~v.valid /\ v.errors = <<"Target TDS exceeds feed TDS">>)

\* C6, its case: a validated specification that violates all three checks.
C6_Witness ==
  /\ validation # <<>>
  /\ spec[1].flowRate <= 0
  /\ spec[1].targetQuality.tds > spec[1].feedWater.tds
  /\ spec[1].targetQuality.tss > spec[1].feedWater.tss
  /\ Len(validation[1].errors) = 3

\* C7: validate returns valid = FALSE whenever the target concentration is
\* above the feed concentration for any of TSS, TDS, BOD and COD.
C7_TargetAboveFeedIsInvalid ==
  validation # <<>> =>
    ((\E p \in {"tss", "tds", "bod", "cod"} :
        spec[1].targetQuality[p] > spec[1].feedWater[p])
     => ~validation[1].valid)

\* C8: an intake record whose flow rate is zero or negative, taken through
\* the constructor and validate, is reported invalid with the flow error.
C8_NonPositiveFlowIsInvalid ==
  (validation # <<>> /\ data[1].flowRate <= 0) =>
    /\ ~validation[1].valid
    /\ Includes(validation[1].errors, "Flow rate must be positive")

\* C9: generateProposal on an intake record whose specification fails
\* validate ends by throwing 'Invalid specification' with no engine
\* constructed, no chain evaluated, no candidate, no pricing and no
\* decision-trail entry.
C9_InvalidSpecProducesNothing ==
  (proposal # <<>> /\ ~validate(CustomerSpec(data[1])).valid) =>
    /\ proposal[1].outcome = "throw"
    /\ proposal[1].error[1] = "Invalid specification"
    /\ proposal[1].engine = <<>>
    /\ proposal[1].solutions = <<>>
    /\ proposal[1].selectedSolution = <<>>
    /\ proposal[1].pricing = <<>>
    /\ proposal[1].decisionTrail = <<>>

\* C9, its case: generateProposal has ended on an invalid specification.
C9_Witness ==
  /\ proposal # <<>>
  /\ ~validate(CustomerSpec(data[1])).valid
  /\ proposal[1].outcome = "throw"

\* C10: the required removal the engine holds for a parameter is
\* 1 - target/feed when the intake record's feed concentration is positive
\* and 0 when it is 0.
C10_RequiredRemovalGuarded ==
  engine # <<>> =>
    \A p \in {"tss", "tds", "bod", "cod"} :
      LET feed   == data[1].feedWater[p]
          target == spec[1].targetQuality[p]
          req    == engine[1].requiredRemoval[p]
      IN  /\ req.kind = "finite"
          /\ IF feed > 0
             THEN req.num * feed = (feed - target) * req.den
             ELSE req.num = 0

\* C11: for a list of registry technologies every combined removal fraction
\* calculateChainPerformance returns lies in [0, 1], and the list with one
\* more registry technology appended has no combined removal fraction lower
\* than before.
C11_RemovalBoundedAndMonotone ==
  [][ (\A i \in 1..Len(techs') : techs'[i] \in TechIds) =>
        \A f \in {"tssRemoval", "tdsRemoval", "bodRemoval", "codRemoval"} :
          /\ 0 <= performance[f] /\ performance[f] <= PPM
          /\ 0 <= performance'[f] /\ performance'[f] <= PPM
          /\ performance'[f] >= performance[f] ]_vars

\* C11, its case: a chain of three registry technologies has been evaluated,
\* the last of which raised the combined TDS removal.
C11_Witness ==
  /\ Len(techs) = 3
  /\ \A i \in 1..Len(techs) : techs[i] \in TechIds
  /\ performance.tdsRemoval
       > calculateChainPerformance(SubSeq(techs, 1, 2)).tdsRemoval
  /\ performance.tdsRemoval < PPM

\* C12: calculateChainPerformance returns all zeros for the empty list, and
\* for any list what it returns for the list's registry ids alone: an id that
\* is absent from the registry contributes nothing.
C12_AbsentIdsContributeNothing ==
  LET InRegistry(id) == id \in TechIds
  IN  /\ techs = <<>> => performance = ZeroPerformance
      /\ performance = calculateChainPerformance(SelectSeq(techs, InRegistry))

\* C13: the water, carbon and energy weights with which the engine scored
\* the candidates of a valid specification sum to 1 (100 percent).
C13_EsgWeightsSumToOne ==
  (solutions # <<>> /\ validate(spec[1]).valid) =>
    spec[1].esgPriorities.water + spec[1].esgPriorities.carbon
      + spec[1].esgPriorities.energy = 100

C15_RankingFollowsObjective ==
  lastResults # <<>> =>
    LET r == lastResults[1]
    IN  \A i, j \in 1..Len(r.solutions) :
          i < j =>
            calculateOptimization(r.inputs, r.solutions[i]).totalScore
              <= calculateOptimization(r.inputs, r.solutions[j]).totalScore

\* C16: every scoring sub-objective lies in [0, 1]: the technical, cost and
\* ESG scores of every simulator candidate, the four objectives of
\* calculateOptimization, and the cost and ESG scores that
\* SolutionEngine.calculateScore combines for every generated solution.
C16_SubObjectivesInUnitInterval ==
  /\ lastResults # <<>> =>
       \A i \in 1..Len(lastResults[1].solutions) :
         LET c == lastResults[1].solutions[i]
             o == calculateOptimization(lastResults[1].inputs, c).objectives
         IN  \A v \in {c.techScore, c.costScore, c.esgScore,
                       o.cost, o.tech, o.esg, o.risk} : 0 <= v /\ v <= PPM
  /\ solutions # <<>> =>
       \A i \in 1..Len(solutions[1]) :
         LET s == solutions[1][i]
         IN  /\ 0 <= EngineCostScore(s.capex, s.opex)
             /\ EngineCostScore(s.capex, s.opex) <= 6 * PPM
             /\ 0 <= s.esgMetrics.composite
             /\ s.esgMetrics.composite <= 100

\* C17: the confidence of every candidate lies in its scale: the score of
\* the simulator's calculateConfidence in [0, 100], the confidence of every
\* solution SolutionEngine generated in [0, 1].
C17_ConfidenceInRange ==
  /\ lastResults # <<>> =>
       \A i \in 1..Len(lastResults[1].solutions) :
         LET conf == calculateSimConfidence(lastResults[1].inputs,
                                            lastResults[1].solutions[i])
         IN  0 <= conf.score /\ conf.score <= 100 * PPM
  /\ solutions # <<>> =>
       \A i \in 1..Len(solutions[1]) :
         0 <= solutions[1][i].confidence /\ solutions[1][i].confidence <= PPM

\* C18: the decision and the level of a confidence are fixed by its score, one
\* label each: 'Auto-approve recommended' and high for a score of at least
\* 80, 'Human review recommended' and medium for a score of at least 50 and
\* below 80, 'Manual override required' and low below 50.  This holds for the
\* confidence of the results of a run and for that of every candidate.
C18_LabelsFollowScore ==
  lastResults # <<>> =>
    \A conf \in {lastResults[1].confidence}
                  \cup {calculateSimConfidence(lastResults[1].inputs,
                                               lastResults[1].solutions[i]) :
                          i \in 1..Len(lastResults[1].solutions)} :
      /\ conf.score >= 80 * PPM =>
           conf.decision = "Auto-approve recommended" /\ conf.level = "high"
      /\ (50 * PPM <= conf.score /\ conf.score < 80 * PPM) =>
           conf.decision = "Human review recommended" /\ conf.level = "medium"
      /\ conf.score < 50 * PPM =>
           conf.decision = "Manual override required" /\ conf.level = "low"

\* A run whose candidates carry all three labels, the best one being high.
C18_Witness ==
  /\ lastResults # <<>>
  /\ lastResults[1].confidence.level = "high"
  /\ \E i, j \in 1..Len(lastResults[1].solutions) :
       /\ calculateSimConfidence(lastResults[1].inputs,
                                 lastResults[1].solutions[i]).level = "medium"
       /\ calculateSimConfidence(lastResults[1].inputs,
                                 lastResults[1].solutions[j]).level = "low"

\* C19: the price findOptimalPrice recommends in a returned proposal is never
\* below the capex of the selected solution, and the margin it returns is a
\* defined number (not NaN) that is not negative.
C19_PriceNotBelowCapex ==
  (proposal # <<>> /\ proposal[1].outcome = "return") =>
    /\ proposal[1].pricing[1].recommended.price
         >= proposal[1].selectedSolution[1].capex
    /\ proposal[1].pricing[1].recommended.margin # NaN
    /\ proposal[1].pricing[1].recommended.margin >= 0

\* C20: the expected value findOptimalPrice returns is at least the expected
\* value P(win | price) * (price - capex) of every margin step it tested (a
\* comparison that is false of a NaN), and the price and the win probability
\* it returns are those of a step at which that expected value is attained.
C20_ReturnsMaximisingStep ==
  (proposal # <<>> /\ proposal[1].outcome = "return") =>
    /\ \A m \in FirstMarginPct..LastMarginPct :
         /\ ExpectedValue(proposal[1].selectedSolution[1],
                          calculatePrice(proposal[1].selectedSolution[1], m)) # NaN
         /\ proposal[1].pricing[1].recommended.expectedValue
              >= ExpectedValue(proposal[1].selectedSolution[1],
                               calculatePrice(proposal[1].selectedSolution[1], m))
    /\ \E m \in FirstMarginPct..LastMarginPct :
         /\ proposal[1].pricing[1].recommended.price
              = calculatePrice(proposal[1].selectedSolution[1], m)
         /\ proposal[1].pricing[1].recommended.expectedValue
              = ExpectedValue(proposal[1].selectedSolution[1],
                              calculatePrice(proposal[1].selectedSolution[1], m))
         /\ proposal[1].pricing[1].recommended.winProbability # NaN
         /\ proposal[1].pricing[1].recommended.winProbability
              = calculateWinProbability(proposal[1].selectedSolution[1],
                                        calculatePrice(proposal[1].selectedSolution[1], m))

C22_FingerprintDeterministic ==
  \A i, j \in 1..Len(ledger) :
    (/\ ledger[i].inputs = ledger[j].inputs
     /\ ledger[i].solution = ledger[j].solution
     /\ ledger[i].timestamp = ledger[j].timestamp)
      => ledger[i].hash = ledger[j].hash

\* The trail before is the beginning of the trail after.
IsPrefix(before, after) ==
  /\ Len(before) <= Len(after)
  /\ SubSeq(after, 1, Len(before)) = before

\* C23: the decision trail is append-only.  A call of logDecision on the
\* trail of the engine, for the decision on any chain, gives the trail with
\* exactly one more entry, the new one last and the others as they were; and
\* no operation on an engine removes, reorders or rewrites an entry of its
\* trail: the trail before the operation begins the trail after it.
C23_TrailAppendOnly ==
  /\ [](engine # <<>> =>
          \A k \in ChainIdx :
            \E d \in {FilterDecision(engine[1], TECH_CHAINS[k])} :
              \E after \in {logDecision(engine[1].decisions, d.action, d.reason)} :
                /\ Len(after) = Len(engine[1].decisions) + 1
                /\ IsPrefix(engine[1].decisions, after)
                /\ after[Len(after)] = d)
  /\ [][(engine # <<>> /\ engine' # <<>>) =>
          IsPrefix(engine[1].decisions, engine'[1].decisions)]_vars

\* generateSolutions has run twice on one engine: the second run appended
\* to a trail that had entries.
C23_Witness ==
  /\ engine # <<>>
  /\ Len(engine[1].decisions) = 2 * Len(TECH_CHAINS)
  /\ \E i, j \in 1..Len(TECH_CHAINS) : engine[1].decisions[i] # engine[1].decisions[j]

\* What generateSolutions returns, and the trail it leaves, for a run alone.
AloneResult(d) == generateSolutions(SolutionEngine(CustomerSpec(d)))

\* C24: under any interleaving of the steps of two generateSolutions calls on
\* different specifications, each call returns the candidate list and leaves
\* the decision trail it does alone; and no step changes TECH_CHAINS, the
\* specification of either run, or anything of the other run.
C24_RunsIndependent ==
  /\ [](runs # <<>> =>
          /\ runs[1].chains = TECH_CHAINS
          /\ \A r \in 1..2 :
               /\ runs[1].run[r].engine.spec = CustomerSpec(runs[1].run[r].data)
               /\ runs[1].run[r].pc = "done" =>
                    \E alone \in {AloneResult(runs[1].run[r].data)} :
                      /\ runs[1].run[r].solutions = alone[1]
                      /\ runs[1].run[r].engine.decisions = alone[2])
  /\ [][(runs # <<>> /\ runs' # <<>>) =>
          \E r \in 1..2 :
            /\ runs'[1].run[3 - r] = runs[1].run[3 - r]
            /\ runs'[1].run[r].data = runs[1].run[r].data]_vars

\* Both runs have returned, the first after the second had started logging
\* and before it had finished, with different candidate lists.
C24_Witness ==
  /\ runs # <<>>
  /\ runs[1].run[1].pc = "done"
  /\ runs[1].run[2].pc = "map"
  /\ runs[1].run[2].i > 1
  /\ runs[1].run[1].solutions # <<>>
  /\ Len(runs[1].run[1].solutions) # Len(runs[1].run[2].kept)

\* C25: the reject concentrations calculateMassBalance returns are finite
\* numbers, also when the reject flow is zero.
C25_RejectConcentrationFinite ==
  balance # <<>> =>
    /\ balance[1].massBalance.Creject.tss.kind = "finite"
    /\ balance[1].massBalance.Creject.tds.kind = "finite"

\* C26: for a specification given with priority weights that are each in
\* [0,1] and sum to 1 (100 percent), the ESG composite of every candidate
\* generateSolutions returned lies in [0,100].
C26_EsgCompositeInRange ==
  (/\ solutions # <<>>
   /\ \A w \in {"water", "carbon", "energy"} : data[1].esgPriorities[w] \in 0..100
   /\ data[1].esgPriorities.water + data[1].esgPriorities.carbon
        + data[1].esgPriorities.energy = 100)
    => \A i \in 1..Len(solutions[1]) :
         /\ solutions[1][i].esgScore >= 0
         /\ solutions[1][i].esgScore <= 100

\* C27: for every candidate of positive capital cost, the margin that
\* findOptimalPrice returns (price / capex - 1) is at least 10% and at most
\* 40%.
C27_MarginWithinSearchBounds ==
  solutions # <<>> =>
    \A i \in 1..Len(solutions[1]) :
      solutions[1][i].capex > 0 =>
        \E r \in {findOptimalPrice(solutions[1][i])} :
          /\ r.margin # NaN
          /\ r.margin >= 10 * 10000
          /\ r.margin <= 40 * 10000

\* C27, as the code has it: the returned price is a searched price, capex *
\* (1 + margin) rounded to a whole number, so that it is within 0.5 of the
\* prices at the bounds: capex * 1.10 - 0.5 <= price <= capex * 1.40 + 0.5,
\* which is 10% - 0.5 / capex <= price / capex - 1 <= 40% + 0.5 / capex.
C27_MarginWithinRoundedBounds ==
  solutions # <<>> =>
    \A i \in 1..Len(solutions[1]) :
      solutions[1][i].capex > 0 =>
        \E r \in {findOptimalPrice(solutions[1][i])} :
          /\ 10 * r.price + r.tenths >= 11 * solutions[1][i].capex - 5
          /\ 10 * r.price + r.tenths <= 14 * solutions[1][i].capex + 5

\* A candidate of capital cost 2 whose best price is 3, a margin of 50%; and
\* in another state a candidate whose best price is at the first step.
C27_Witness ==
  /\ solutions # <<>>
  /\ \E i \in 1..Len(solutions[1]) :
       /\ solutions[1][i].capex = 2
       /\ findOptimalPrice(solutions[1][i]).price = 3
       /\ findOptimalPrice(solutions[1][i]).margin = 50 * 10000

\* The chain of this name is among the solutions.
Returns(sols, name) == \E j \in 1..Len(sols) : sols[j].name = name

\* C28: a generateSolutions call, through its filterFeasibleChains, appends
\* to the trail exactly one entry per chain of TECH_CHAINS, in the order of
\* TECH_CHAINS: 'Included <name>' for the chains whose solutions it returns
\* and 'Excluded <name>' for all others.  The trail of an engine so has one
\* entry per chain after one call.
C28_OneEntryPerChain ==
  /\ [](engine # <<>> => Len(engine[1].decisions) % Len(TECH_CHAINS) = 0)
  /\ [][(engine # <<>> /\ engine' # <<>>
         /\ engine'[1].decisions # engine[1].decisions) =>
          /\ Len(engine'[1].decisions) = Len(engine[1].decisions) + Len(TECH_CHAINS)
          /\ \A k \in ChainIdx :
               \E e \in {engine'[1].decisions[Len(engine[1].decisions) + k]} :
                 /\ e.action[2] = TECH_CHAINS[k].name
                 /\ e.action[1] = IF Returns(solutions'[1], TECH_CHAINS[k].name)
                                  THEN "Included" ELSE "Excluded"]_vars

\* After one generateSolutions call the trail has one entry per chain, some
\* chains included because of their TSS or BOD removal alone being enough,
\* one excluded although its TDS removal is enough.
C28_Witness ==
  /\ engine # <<>>
  /\ solutions # <<>>
  /\ Len(engine[1].decisions) = Len(TECH_CHAINS)
  /\ \E k \in ChainIdx : engine[1].decisions[k].action[1] = "Included"
  /\ \E k \in ChainIdx :
       /\ engine[1].decisions[k].action[1] = "Excluded"
       /\ RemovalGeq(calculateChainPerformance(TECH_CHAINS[k].techs).tdsRemoval,
                     engine[1].requiredRemoval.tds)

====
